---- MODULE Spec2Model ----
(***************************************************************************)
(* Stem lifecycle of mixpoint: validateTrackStemAccess (fileHandlers.ts),  *)
(* getStemsDirHandle (fileHandlers.ts), stemAudio (stemHandlers) and       *)
(* storeTrackCache (dbHandlers), interleaved at their await points (Spec,  *)
(* FairSpec); the beat grid of calcRegions (GridSpec); play, pause, seek   *)
(* and the volume meter timers of audioEvents (PlaySpec, ResumeSpec,       *)
(* SeekSpec, ElapsedSpec), its bpm, offset and beatResolution controls     *)
(* (ControlSpec) and destroy (DestroySpec); the audioEvent listeners       *)
(* (EventsSpec); addToMix (MixSpec); crossfade and the stem volume, mute   *)
(* and solo controls (FadeSpec); repeated calls of calcRegions             *)
(* (RepeatSpec); the previous and next beat marker buttons (NavSpec);      *)
(* overlapping calls of storeTrackCache on a full cache (CacheSpec).       *)
(***************************************************************************)
EXTENDS Integers, Sequences, FiniteSets, TLC

\* ---------------------------------------------------------------- bounds
MaxHandles == 2        \* directory handles the picker may hand out
MaxTimers == 2         \* interval timers setInterval may hand out
MaxTicks == 1          \* periods of the meter timer the clock may advance
MaxGrids == 2          \* calls of calcRegions in a run of repeated calls

\* ------------------------------------------------------ program constants
CACHE_LIMIT == 25
InitialStemTimer == 100

Tracks == {1}
NoTrackId == 0                      \* a falsy trackId
STEMS == <<"drums", "bass", "vocals", "other">>
StemNames == {STEMS[i] : i \in 1..Len(STEMS)}

Undefined == "undefined"
StemState == {"selectStemDir", "grantStemDirAccess", "getStems",
              "uploadingFile", "processingStems", "downloadingStems",
              "ready", "error"}

\* A directory entry name: `${base} - ${tail}.mp3`, or some other file when
\* tail is not a stem name.
OwnBase == "FILENAME"
ForeignBase == "copy"
FileNames == [base : {OwnBase, ForeignBase}, tail : StemNames \cup {"notes"}]
StemFileName(stem) == [base |-> OwnBase, tail |-> stem]

\* name.match(/- (bass|vocals|other|drums)\.mp3$/): the captured stem or null
MatchStem(name) == IF name.tail \in {"bass", "vocals", "other", "drums"}
                   THEN name.tail ELSE "null"

\* localStems built by the for-await loop over the directory entries
LocalStemsOf(files) == {MatchStem(n) : n \in files} \ {"null"}

VARIABLES
  requests,        \* the stemAudio calls made in this run
  audioLoaded,     \* set of track ids with an audioState entry
  stemState,       \* audioState[id].stemState
  stemTimer,       \* audioState[id].stemTimer
  stemsAnalyzing,  \* appState.stemsAnalyzing
  trackCache,      \* db.trackCache: id -> [file, stems]
  trackName,       \* db.tracks: ids whose record has a name
  prefsHandle,     \* prefs 'user'.stemsDirHandle, 0 when not configured
  handlePerm,      \* permission state of each directory handle
  handlesMade,     \* handles handed out so far
  stemDir,         \* `${FILENAME} - stems` under the stems directory
  service,         \* the stem separation service, per uploaded file
  wf,              \* pending stemAudio calls
  va,              \* pending validateTrackStemAccess calls
  calc,            \* a call of calcRegions: its arguments, position and result
  arrays,          \* the arrays of regions calcRegions has made
  held,            \* what the calls have returned: the values a grid was
                   \* computed from and the array that holds it
  mix,             \* per track: waveform, player, stems, bpm and its override
  au,              \* audioState[id]: playing, time, meters, timer handle, ...
  clock,           \* now() of the audio context, in ms
  timers,          \* live interval timers: handle -> closure of the callback
  pl,              \* pending audioEvents.play calls
  timersMade,      \* handles setInterval has handed out
  lastSeek,        \* the last seek: what it was called with and resolved
  ctl,             \* a track's tempo, offset, resolution, markers and the
                   \* pending bpm, offset or beatResolution call
  ev,              \* the audioEvent listeners of a track id, what was emitted
                   \* for it and what was delivered
  destroyed,       \* the track ids audioEvents.destroy was called for
  mixState,        \* mixState.tracks: slot index -> track id, 0 when emptied
  am,              \* pending addToMix calls
  trackState,      \* audioState[id] and mixState.trackState[id]: no entry, an
                   \* empty one, or one that has been written to
  gn,              \* per track: the gain of its gain node, and of each stem
                   \* the gain, the stored volume and the mute flag
  cf,              \* prefs 'mix'.tracks and the pending crossfade calls
  nav,             \* a paused track: its markers, skipLength and playhead
  sc               \* pending storeTrackCache calls

stemVars == <<requests, audioLoaded, stemState, stemTimer, stemsAnalyzing,
              trackCache, trackName, prefsHandle, handlePerm, handlesMade,
              stemDir, service, wf, va>>
gridVars == <<calc, arrays, held>>
playVars == <<mix, au, clock, timers, timersMade, pl, lastSeek>>
controlVars == <<ctl>>
eventVars == <<ev>>
mixVars == <<mixState, am, trackState>>
fadeVars == <<gn, cf>>
cacheVars == <<sc>>
restVars == <<controlVars, eventVars, destroyed, mixVars, fadeVars, nav,
              cacheVars>>
vars == <<stemVars, gridVars, playVars, restVars>>

\* what the stem lifecycle leaves alone
besideStems == <<gridVars, playVars, restVars>>
\* what calcRegions leaves alone
besideGrid == <<stemVars, playVars, restVars>>
\* what play, pause and seek leave alone
besidePlay == <<stemVars, gridVars, restVars>>
\* what bpm, offset and beatResolution leave alone
besideControl == <<stemVars, gridVars, playVars, eventVars, destroyed, mixVars,
                   fadeVars, nav, cacheVars>>
\* what the audioEvent listeners leave alone
besideEvents == <<stemVars, gridVars, playVars, controlVars, destroyed, mixVars,
                  fadeVars, nav, cacheVars>>
\* what addToMix leaves alone
besideMix == <<stemVars, gridVars, playVars, controlVars, eventVars, destroyed,
               fadeVars, nav, cacheVars>>
\* what crossfade and the stem volume controls leave alone
besideFade == <<stemVars, gridVars, playVars, controlVars, eventVars, destroyed,
                mixVars, nav, cacheVars>>
\* what the previous and next buttons leave alone
besideNav == <<stemVars, gridVars, playVars, controlVars, eventVars, destroyed,
               mixVars, fadeVars, cacheVars>>
\* what storeTrackCache leaves alone
besideCache == <<requests, audioLoaded, stemState, stemTimer, stemsAnalyzing,
                 trackName, prefsHandle, handlePerm, handlesMade, stemDir,
                 service, wf, va, gridVars, playVars, controlVars, eventVars,
                 destroyed, mixVars, fadeVars, nav>>

Handles == 1..MaxHandles
Workflows == {1, 2}    \* the stemAudio calls of a run, in call order
Calls == {1}           \* pending validateTrackStemAccess calls

\* ------------------------------------------------------------ track cache
NoEntry == [file |-> FALSE, stems |-> {}]

\* (await db.trackCache.get(id)) || {}
CacheGet(id) == IF id \in DOMAIN trackCache THEN trackCache[id] ELSE NoEntry

\* storeTrackCache, first half: read the entry and merge
\*   if (!file) file = cache?.file
\*   if (cache?.stems) stems = { ...cache.stems, ...stems }
StoreMerge(cache, file, stems) ==
  [file |-> file \/ cache.file,
   stems |-> IF cache.stems # {} THEN cache.stems \cup stems ELSE stems]

\* db.trackCache.orderBy('id').first()
Oldest(cache) == CHOOSE i \in DOMAIN cache : \A j \in DOMAIN cache : i <= j

\* storeTrackCache, second half: enforce the limit, then put
StorePut(cache, id, entry) ==
  LET evicted == IF Cardinality(DOMAIN cache) > CACHE_LIMIT
                 THEN [i \in (DOMAIN cache) \ {Oldest(cache)} |-> cache[i]]
                 ELSE cache
  IN [i \in (DOMAIN evicted) \cup {id} |->
        IF i = id THEN entry ELSE evicted[i]]

\* --------------------------------------------------- validateTrackStemAccess
\* A call that has returned keeps what it read and answered until the slot is
\* called again; a call that threw leaves nothing.
IdleCall == [pc |-> "idle", track |-> NoTrackId, stemState |-> Undefined,
             handle |-> 0, files |-> {}, localStems |-> {},
             entry |-> NoEntry, result |-> Undefined, seen |-> <<>>]

\* const { stemState } = audioState[trackId] || {}
ReadStemState(t) == IF t \in audioLoaded THEN stemState[t] ELSE Undefined

\* the call itself: the guard on trackId, the read of stemState, and the
\* start of db.trackCache.get
ValidateCall(c, t) ==
  /\ va[c].pc \in {"idle", "returned"}
  /\ va' = [va EXCEPT ![c] =
       IF t = NoTrackId
       THEN IdleCall   \* throw errorHandler('No Track id provided for stems')
       ELSE [IdleCall EXCEPT !.pc = "cacheGet", !.track = t,
                             !.stemState = ReadStemState(t)]]
  /\ UNCHANGED <<besideStems, requests, audioLoaded, stemState, stemTimer, stemsAnalyzing,
                 trackCache, trackName, prefsHandle, handlePerm, handlesMade,
                 stemDir, service, wf>>

\* if (stemState !== accessState && audioState[trackId])
\*   audioState[trackId].stemState = accessState
WritePhase(c, t, accessState) ==
  va[c].stemState # accessState /\ t \in audioLoaded

\* the code after `await checkAccess()`, which runs in the same turn of the
\* event loop as the return of checkAccess
AfterCheckAccess(c, accessState) ==
  LET t == va[c].track IN
  /\ stemsAnalyzing' = IF accessState = "ready" THEN stemsAnalyzing \ {t}
                       ELSE stemsAnalyzing
  /\ stemState' = IF WritePhase(c, t, accessState)
                  THEN [stemState EXCEPT ![t] = accessState]
                  ELSE stemState

\* checkAccess returns r
Return(c, r, what) ==
  /\ va' = [va EXCEPT ![c].pc = "returned", ![c].result = r,
                      ![c].seen = Append(va[c].seen, what)]
  /\ AfterCheckAccess(c, r)

\* checkAccess goes on to its next await
Continue(c, next, what) ==
  /\ va' = [va EXCEPT ![c].pc = next, ![c].seen = Append(va[c].seen, what)]
  /\ UNCHANGED <<stemState, stemsAnalyzing>>

\* const { stems } = (await db.trackCache.get(trackId)) || {}
\* if (stems) return 'ready'
ValidateCacheGet(c) ==
  /\ va[c].pc = "cacheGet"
  /\ IF CacheGet(va[c].track).stems # {}
     THEN /\ va' = [va EXCEPT ![c].pc = "returned", ![c].result = "ready",
                              ![c].entry = CacheGet(va[c].track),
                              ![c].seen = Append(va[c].seen, "stems")]
          /\ AfterCheckAccess(c, "ready")
     ELSE Continue(c, "getPrefs", "noStems")
  /\ UNCHANGED <<besideStems, requests, audioLoaded, stemTimer, trackCache, trackName,
                 prefsHandle, handlePerm, handlesMade, stemDir, service, wf>>

\* const { stemsDirHandle } = await getPrefs('user')
\* if (!stemsDirHandle) return 'selectStemDir'
ValidateGetPrefs(c) ==
  /\ va[c].pc = "getPrefs"
  /\ IF prefsHandle = 0
     THEN Return(c, "selectStemDir", "noHandle")
     ELSE /\ va' = [va EXCEPT ![c].pc = "queryPermission",
                              ![c].handle = prefsHandle,
                              ![c].seen = Append(va[c].seen, "handle")]
          /\ UNCHANGED <<stemState, stemsAnalyzing>>
  /\ UNCHANGED <<besideStems, requests, audioLoaded, stemTimer, trackCache, trackName,
                 prefsHandle, handlePerm, handlesMade, stemDir, service, wf>>

\* the code after the permission check, up to the next await:
\*   if (stemState === 'processingStems') return stemState
AfterPermission(c) ==
  IF va[c].stemState = "processingStems"
  THEN Return(c, va[c].stemState, "granted")
  ELSE Continue(c, "getTrack", "granted")

\* stemsDirHandle.queryPermission({ mode: 'readwrite' }) in its try/catch
ValidateQueryPermission(c) ==
  /\ va[c].pc = "queryPermission"
  /\ LET p == handlePerm[va[c].handle] IN
       CASE p = "gone" -> Return(c, "selectStemDir", "gone")
         [] p = "granted" -> AfterPermission(c)
         [] OTHER -> Return(c, "grantStemDirAccess", "notGranted")
  /\ UNCHANGED <<besideStems, requests, audioLoaded, stemTimer, trackCache, trackName,
                 prefsHandle, handlePerm, handlesMade, stemDir, service, wf>>

\* const { name } = (await db.tracks.get(trackId)) || {}
\* if (!name) return 'getStems'
ValidateGetTrack(c) ==
  /\ va[c].pc = "getTrack"
  /\ IF va[c].track \in trackName
     THEN Continue(c, "getDirectoryHandle", "name")
     ELSE Return(c, "getStems", "noName")
  /\ UNCHANGED <<besideStems, requests, audioLoaded, stemTimer, trackCache, trackName,
                 prefsHandle, handlePerm, handlesMade, stemDir, service, wf>>

\* stemsDirHandle.getDirectoryHandle(`${FILENAME} - stems`) in its try/catch
ValidateGetDirectoryHandle(c) ==
  /\ va[c].pc = "getDirectoryHandle"
  /\ IF stemDir[va[c].track].exists
     THEN Continue(c, "entries", "dir")
     ELSE Return(c, "getStems", "noDir")
  /\ UNCHANGED <<besideStems, requests, audioLoaded, stemTimer, trackCache, trackName,
                 prefsHandle, handlePerm, handlesMade, stemDir, service, wf>>

\* the files of a directory that the regular expression takes for stems
Recognized(files) == {n \in files : MatchStem(n) # "null"}

\* if (Object.keys(localStems).length < 4) return 'getStems'
EnoughStemsByFileCount(files, localStems) == Cardinality(Recognized(files)) >= 4

EnoughStems(files, localStems) == ~ (Cardinality(localStems) < 4)

\* the for-await loop over trackStemDirHandle.entries(), then the count
ValidateEntries(c) ==
  /\ va[c].pc = "entries"
  /\ \/ \* fileHandle.getFile throws: throw errorHandler(e)
        /\ va' = [va EXCEPT ![c] = IdleCall]
        /\ UNCHANGED <<stemState, stemsAnalyzing>>
     \/ LET files == stemDir[va[c].track].files
            localStems == LocalStemsOf(files)
            read == [va EXCEPT ![c].files = files,
                               ![c].localStems = localStems] IN
        IF EnoughStems(files, localStems)
        THEN /\ va' = [read EXCEPT ![c].pc = "storeGet",
                                   ![c].seen = Append(va[c].seen, "enough")]
             /\ UNCHANGED <<stemState, stemsAnalyzing>>
        ELSE /\ AfterCheckAccess(c, "getStems")
             /\ va' = [read EXCEPT ![c].pc = "returned",
                                   ![c].result = "getStems",
                                   ![c].seen = Append(va[c].seen, "tooFew")]
  /\ UNCHANGED <<besideStems, requests, audioLoaded, stemTimer, trackCache, trackName,
                 prefsHandle, handlePerm, handlesMade, stemDir, service, wf>>

\* storeTrackCache({ id: trackId, stems: localStems }): the read
ValidateStoreGet(c) ==
  /\ va[c].pc = "storeGet"
  /\ va' = [va EXCEPT ![c].pc = "storePut",
                      ![c].entry = StoreMerge(CacheGet(va[c].track), FALSE,
                                              va[c].localStems)]
  /\ UNCHANGED <<besideStems, requests, audioLoaded, stemState, stemTimer, stemsAnalyzing,
                 trackCache, trackName, prefsHandle, handlePerm, handlesMade,
                 stemDir, service, wf>>

\* storeTrackCache: the put; then return 'ready'
ValidateStorePut(c) ==
  /\ va[c].pc = "storePut"
  /\ trackCache' = StorePut(trackCache, va[c].track, va[c].entry)
  /\ Return(c, "ready", "stored")
  /\ UNCHANGED <<besideStems, requests, audioLoaded, stemTimer, trackName, prefsHandle,
                 handlePerm, handlesMade, stemDir, service, wf>>

\* ------------------------------------------------------------------ stemAudio
IdleWorkflow == [pc |-> "idle", track |-> NoTrackId, dirHandle |-> 0,
                 newHandle |-> 0, i |-> 1, entry |-> NoEntry,
                 persisted |-> {}, cached |-> {}, wrote |-> <<>>,
                 retried |-> FALSE, outcome |-> "none"]

Settled == {"resolved", "rejected"}

\* The caller of stemAudio (the stem control of a track in the mix) offers
\* generation once validateTrackStemAccess has answered, unless the stored
\* phase says that generation is under way or done. stemAudio itself asks for
\* a missing directory or permission (getStemsDirHandle).
RequestOffered(t) ==
  /\ t \in audioLoaded
  /\ stemState[t] \in {"selectStemDir", "grantStemDirAccess", "getStems",
                       "error"}

\* stemAudio(trackId): the call, up to db.trackCache.get
StemAudioCall(w, t) ==
  /\ w \in requests
  /\ wf[w].pc = "idle"
  /\ \A v \in Workflows : v < w => wf[v].pc # "idle"
  /\ RequestOffered(t)
  /\ wf' = [wf EXCEPT ![w] = [IdleWorkflow EXCEPT !.pc = "cacheGet",
                                                  !.track = t]]
  /\ UNCHANGED <<besideStems, requests, audioLoaded, stemState, stemTimer, stemsAnalyzing,
                 trackCache, trackName, prefsHandle, handlePerm, handlesMade,
                 stemDir, service, va>>

\* the promise of stemAudio rejects
Reject(w, why) ==
  wf' = [wf EXCEPT ![w] = [IdleWorkflow EXCEPT !.pc = "rejected",
                             !.track = wf[w].track, !.outcome = why]]

\* an exception inside waitForStems: the promise of checkForStems is neither
\* resolved nor rejected, stemAudio stays suspended at `await checkForStems()`
Hang(w, why) ==
  wf' = [wf EXCEPT ![w] = [IdleWorkflow EXCEPT !.pc = "pending",
                             !.track = wf[w].track, !.outcome = why]]

\* const { file } = (await db.trackCache.get(trackId)) || {}
\* if (!file) throw errorHandler(...)
StemAudioCacheGet(w) ==
  /\ wf[w].pc = "cacheGet"
  /\ IF CacheGet(wf[w].track).file
     THEN wf' = [wf EXCEPT ![w].pc = "getPrefs"]
     ELSE Reject(w, "noFile")
  /\ UNCHANGED <<besideStems, requests, audioLoaded, stemState, stemTimer, stemsAnalyzing,
                 trackCache, trackName, prefsHandle, handlePerm, handlesMade,
                 stemDir, service, va>>

\* getStemsDirHandle: const { stemsDirHandle } = await getPrefs('user')
StemAudioGetPrefs(w) ==
  /\ wf[w].pc = "getPrefs"
  /\ wf' = [wf EXCEPT ![w].pc = IF prefsHandle # 0 THEN "queryPermission"
                                ELSE "picker",
                      ![w].dirHandle = prefsHandle]
  /\ UNCHANGED <<besideStems, requests, audioLoaded, stemState, stemTimer, stemsAnalyzing,
                 trackCache, trackName, prefsHandle, handlePerm, handlesMade,
                 stemDir, service, va>>

\* stemAudio once getStemsDirHandle has returned handle h: the phase becomes
\* uploadingFile, the timer 100, and sendFile starts the PUT
GotDirHandle(w, h) ==
  LET t == wf[w].track IN
  IF t \in audioLoaded
  THEN /\ stemState' = [stemState EXCEPT ![t] = "uploadingFile"]
       /\ stemTimer' = [stemTimer EXCEPT ![t] = InitialStemTimer]
       /\ wf' = [wf EXCEPT ![w].pc = "upload", ![w].dirHandle = h,
                           ![w].wrote = Append(wf[w].wrote, "uploadingFile")]
  ELSE /\ Reject(w, "TypeError")
       /\ UNCHANGED <<stemState, stemTimer>>

\* getStemsDirHandle: stemsDirHandle.queryPermission({ mode: 'readwrite' })
StemAudioQueryPermission(w) ==
  /\ wf[w].pc = "queryPermission"
  /\ LET p == handlePerm[wf[w].dirHandle] IN
       CASE p = "granted" -> GotDirHandle(w, wf[w].dirHandle)
         [] p = "gone" -> Reject(w, "threw") /\ UNCHANGED <<stemState, stemTimer>>
         [] OTHER -> /\ wf' = [wf EXCEPT ![w].pc = "requestPermission"]
                     /\ UNCHANGED <<stemState, stemTimer>>
  /\ UNCHANGED <<besideStems, requests, audioLoaded, stemsAnalyzing, trackCache, trackName,
                 prefsHandle, handlePerm, handlesMade, stemDir, service, va>>

\* getStemsDirHandle: stemsDirHandle.requestPermission({ mode: 'readwrite' })
StemAudioRequestPermission(w) ==
  /\ wf[w].pc = "requestPermission"
  /\ LET h == wf[w].dirHandle IN
       \/ /\ handlePerm[h] # "denied"
          /\ handlePerm' = [handlePerm EXCEPT ![h] = "granted"]
          /\ GotDirHandle(w, h)
       \/ /\ handlePerm' = [handlePerm EXCEPT ![h] = "denied"]
          /\ wf' = [wf EXCEPT ![w].pc = "picker"]
          /\ UNCHANGED <<stemState, stemTimer>>
  /\ UNCHANGED <<besideStems, requests, audioLoaded, stemsAnalyzing, trackCache, trackName,
                 prefsHandle, handlesMade, stemDir, service, va>>

\* getStemsDirHandle: window.showDirectoryPicker(...)
StemAudioPicker(w) ==
  /\ wf[w].pc = "picker"
  /\ \/ \* the user cancels: showDirectoryPicker rejects
        /\ Reject(w, "aborted")
        /\ UNCHANGED <<handlePerm, handlesMade>>
     \/ /\ handlesMade < MaxHandles
        /\ handlesMade' = handlesMade + 1
        /\ \E p \in {"granted", "prompt"} :
             handlePerm' = [handlePerm EXCEPT ![handlesMade + 1] = p]
        /\ wf' = [wf EXCEPT ![w].pc = "newQueryPermission",
                            ![w].newHandle = handlesMade + 1]
  /\ UNCHANGED <<besideStems, requests, audioLoaded, stemState, stemTimer, stemsAnalyzing,
                 trackCache, trackName, prefsHandle, stemDir, service, va>>

\* getStemsDirHandle: newStemsDirHandle.queryPermission(...); when it is not
\* granted the function returns undefined and stemAudio throws
StemAudioNewQueryPermission(w) ==
  /\ wf[w].pc = "newQueryPermission"
  /\ IF handlePerm[wf[w].newHandle] = "granted"
     THEN wf' = [wf EXCEPT ![w].pc = "setPrefs"]
     ELSE Reject(w, "denied")
  /\ UNCHANGED <<besideStems, requests, audioLoaded, stemState, stemTimer, stemsAnalyzing,
                 trackCache, trackName, prefsHandle, handlePerm, handlesMade,
                 stemDir, service, va>>

\* getStemsDirHandle: await setPrefs('user', { stemsDirHandle: ... })
StemAudioSetPrefs(w) ==
  /\ wf[w].pc = "setPrefs"
  /\ prefsHandle' = wf[w].newHandle
  /\ GotDirHandle(w, wf[w].newHandle)
  /\ UNCHANGED <<besideStems, requests, audioLoaded, stemsAnalyzing, trackCache, trackName,
                 handlePerm, handlesMade, stemDir, service, va>>

\* handleErr: audioState[trackId].stemState = 'error', then throw
HandleErr(t) == stemState' = [stemState EXCEPT ![t] = "error"]

\* sendFile: the PUT. A rejected fetch is caught and goes through handleErr;
\* a resolved one (whatever its status) goes on to db.tracks.get
StemAudioUpload(w) ==
  /\ wf[w].pc = "upload"
  /\ LET t == wf[w].track IN
       \/ /\ HandleErr(t)
          /\ Reject(w, "uploadError")
          /\ UNCHANGED service
       \/ /\ \E accepted \in BOOLEAN :
               service' = IF accepted /\ service[t] \in {"none", "failed"}
                          THEN [service EXCEPT ![t] = "processing"]
                          ELSE service
          /\ wf' = [wf EXCEPT ![w].pc = "getSize"]
          /\ UNCHANGED stemState
  /\ UNCHANGED <<besideStems, requests, audioLoaded, stemTimer, stemsAnalyzing, trackCache,
                 trackName, prefsHandle, handlePerm, handlesMade, stemDir, va>>

\* ((size || 1) / 1000) * 0.02 for a track record of 5 MB, and for a missing
\* record or size (a fraction of a second, here 0)
SizedStemTimer(t) == IF t \in trackName THEN (5000000 \div 1000) \div 50
                     ELSE 0

\* sendFile after the PUT: the timer; then stemAudio sets processingStems and
\* checkForStems sends the first HEAD
StemAudioGetSize(w) ==
  /\ wf[w].pc = "getSize"
  /\ LET t == wf[w].track IN
       /\ stemTimer' = [stemTimer EXCEPT ![t] = SizedStemTimer(t)]
       /\ stemState' = [stemState EXCEPT ![t] = "processingStems"]
  /\ wf' = [wf EXCEPT ![w].pc = "poll",
                      ![w].wrote = Append(wf[w].wrote, "processingStems")]
  /\ UNCHANGED <<besideStems, requests, audioLoaded, stemsAnalyzing, trackCache, trackName,
                 prefsHandle, handlePerm, handlesMade, stemDir, service, va>>

\* the answer of the service to HEAD
HeadStatusNeverReady(t) == CASE service[t] \in {"processing", "done"} -> 202
                             [] service[t] = "failed" -> 500
                             [] OTHER -> 404

HeadStatus(t) == CASE service[t] = "processing" -> 202
                   [] service[t] = "done" -> 200
                   [] service[t] = "failed" -> 500
                   [] OTHER -> 404

\* waitForStems: the HEAD request and the branches on res.status
StemAudioPoll(w) ==
  /\ wf[w].pc = "poll"
  /\ LET t == wf[w].track IN
       \/ \* fetch rejects inside waitForStems
          /\ Hang(w, "pollError")
          /\ UNCHANGED stemState
       \/ /\ HeadStatus(t) = 202
          /\ wf' = [wf EXCEPT ![w].pc = "timer"]
          /\ UNCHANGED stemState
       \/ /\ HeadStatus(t) = 500
          /\ HandleErr(t)
          /\ Hang(w, "poll500")
       \/ /\ HeadStatus(t) = 200
          /\ wf' = [wf EXCEPT ![w].pc = "fetchStems", ![w].retried = FALSE]
          /\ UNCHANGED stemState
       \/ /\ HeadStatus(t) \notin {202, 500, 200}
          /\ HandleErr(t)
          /\ Hang(w, "unexpected")
  /\ UNCHANGED <<besideStems, requests, audioLoaded, stemTimer, stemsAnalyzing, trackCache,
                 trackName, prefsHandle, handlePerm, handlesMade, stemDir,
                 service, va>>

\* setTimeout(waitForStems, 10000) fires
StemAudioTimer(w) ==
  /\ wf[w].pc = "timer"
  /\ wf' = [wf EXCEPT ![w].pc = "poll", ![w].retried = TRUE]
  /\ UNCHANGED <<besideStems, requests, audioLoaded, stemState, stemTimer, stemsAnalyzing,
                 trackCache, trackName, prefsHandle, handlePerm, handlesMade,
                 stemDir, service, va>>

\* Promise.all over the four stem GETs; on success stemAudio resumes, sets
\* downloadingStems and asks for the directory
StemAudioFetchStems(w) ==
  /\ wf[w].pc = "fetchStems"
  /\ LET t == wf[w].track IN
       \/ /\ stemState' = [stemState EXCEPT ![t] = "downloadingStems"]
          /\ wf' = [wf EXCEPT ![w].pc = "getDirectoryHandle",
                      ![w].wrote = Append(wf[w].wrote, "downloadingStems")]
       \/ \* a GET rejects or is not ok: reject(error)
          /\ Reject(w, "stemGet")
          /\ UNCHANGED stemState
  /\ UNCHANGED <<besideStems, requests, audioLoaded, stemTimer, stemsAnalyzing, trackCache,
                 trackName, prefsHandle, handlePerm, handlesMade, stemDir,
                 service, va>>

\* dirHandle.getDirectoryHandle(`${FILENAME} - stems`, { create: true })
StemAudioGetDirectoryHandle(w) ==
  /\ wf[w].pc = "getDirectoryHandle"
  /\ LET t == wf[w].track IN
       \/ /\ stemDir' = [stemDir EXCEPT ![t].exists = TRUE]
          /\ wf' = [wf EXCEPT ![w].pc = "write", ![w].i = 1]
       \/ /\ Reject(w, "mkdir")
          /\ UNCHANGED stemDir
  /\ UNCHANGED <<besideStems, requests, audioLoaded, stemState, stemTimer, stemsAnalyzing,
                 trackCache, trackName, prefsHandle, handlePerm, handlesMade,
                 service, va>>

\* stemsDirHandle.getFileHandle(name, { create: true }), createWritable,
\* write and close: the entry exists once getFileHandle has succeeded
StemAudioWrite(w) ==
  /\ wf[w].pc = "write"
  /\ LET t == wf[w].track
         created == [stemDir EXCEPT ![t].files =
                       @ \cup {StemFileName(STEMS[wf[w].i])}] IN
       \/ /\ stemDir' = created
          /\ wf' = [wf EXCEPT ![w].pc = "storeGet",
                              ![w].persisted = @ \cup {STEMS[wf[w].i]}]
       \/ \* createWritable, write or close throws
          /\ stemDir' = created
          /\ Reject(w, "write")
       \/ \* getFileHandle throws
          /\ Reject(w, "getFileHandle")
          /\ UNCHANGED stemDir
  /\ UNCHANGED <<besideStems, requests, audioLoaded, stemState, stemTimer, stemsAnalyzing,
                 trackCache, trackName, prefsHandle, handlePerm, handlesMade,
                 service, va>>

\* storeTrackCache({ id: trackId, stems: { [type]: { file } } }): the read
StemAudioStoreGet(w) ==
  /\ wf[w].pc = "storeGet"
  /\ wf' = [wf EXCEPT ![w].pc = "storePut",
                      ![w].entry = StoreMerge(CacheGet(wf[w].track), FALSE,
                                              {STEMS[wf[w].i]})]
  /\ UNCHANGED <<besideStems, requests, audioLoaded, stemState, stemTimer, stemsAnalyzing,
                 trackCache, trackName, prefsHandle, handlePerm, handlesMade,
                 stemDir, service, va>>

\* the loop is over after the last of STEMS
LastStemEarly(i) == i >= 1

LastStem(i) == i >= Len(STEMS)

\* storeTrackCache: the put; then the next stem, or after the last one
\* audioState[trackId].stemState = 'ready'
StemAudioStorePut(w) ==
  /\ wf[w].pc = "storePut"
  /\ LET t == wf[w].track IN
       /\ trackCache' = StorePut(trackCache, t, wf[w].entry)
       /\ IF LastStem(wf[w].i)
          THEN /\ stemState' = [stemState EXCEPT ![t] = "ready"]
               /\ wf' = [wf EXCEPT ![w].pc = "resolved",
                           ![w].outcome = "ok",
                           ![w].cached = @ \cup {STEMS[wf[w].i]},
                           ![w].wrote = Append(wf[w].wrote, "ready")]
          ELSE /\ wf' = [wf EXCEPT ![w].pc = "write",
                           ![w].i = @ + 1,
                           ![w].cached = @ \cup {STEMS[wf[w].i]}]
               /\ UNCHANGED stemState
  /\ UNCHANGED <<besideStems, requests, audioLoaded, stemTimer, stemsAnalyzing, trackName,
                 prefsHandle, handlePerm, handlesMade, stemDir, service, va>>

\* the separation service finishes a job, with or without success
ServiceFinish(t) ==
  /\ service[t] = "processing"
  /\ \E s \in {"done", "failed"} : service' = [service EXCEPT ![t] = s]
  /\ UNCHANGED <<besideStems, requests, audioLoaded, stemState, stemTimer, stemsAnalyzing,
                 trackCache, trackName, prefsHandle, handlePerm, handlesMade,
                 stemDir, wf, va>>

\* ---------------------------------------------------------------- calcRegions
\* Times are in milliseconds. A field that is undefined is Unset; beatResolution
\* 0.25, 0.5 and 1 are counted in quarters (1, 2, 4).
Unset == -1
MsPerMinute == 60000
Falsy(x) == x \in {Unset, 0}

\* a || b || c
Or3(a, b, c) == IF ~ Falsy(a) THEN a ELSE IF ~ Falsy(b) THEN b ELSE c

IdleCalc == [pc |-> "idle", duration |-> Unset, offset |-> Unset,
             adjustedOffset |-> Unset, bpm |-> Unset, adjustedBpm |-> Unset,
             beatResolution |-> Unset, skipLength |-> Unset, regions |-> <<>>]

\* no call of calcRegions was made
GridQuiet == calc = IdleCalc /\ arrays = <<>> /\ held = <<>>

\* the arguments the calls are made with
Durations == {0, 2000, 2600}
Offsets == {Unset, 0, 200, 1300}
AdjustedOffsets == {Unset, 0, 1000}
Bpms == {Unset, 0, 100, 120}
AdjustedBpms == {Unset, 150}
BeatResolutions == {Unset, 1, 2, 4}

\* const valsMissing = !duration || isNaN(Number(bpm)) || isNaN(Number(offset))
ValsMissing(c) == Falsy(c.duration) \/ c.bpm = Unset \/ c.offset = Unset

\* calcRegions(track, partialTrackState), up to its first await
CalcRegionsCall ==
  /\ calc.pc = "call"
  /\ calc' = [calc EXCEPT !.pc = IF ValsMissing(calc) THEN "analyzeTracks"
                                 ELSE "getTrackState"]
  /\ UNCHANGED <<arrays, held, besideGrid>>

\* ;({ duration, bpm, offset } = analyzedTracks[0])
\* if (!duration) throw errorHandler(...)
CalcRegionsAnalyzed ==
  /\ calc.pc = "analyzeTracks"
  /\ \E d \in {0, 2000}, b \in {Unset, 120}, o \in {Unset, 200} :
       calc' = [calc EXCEPT !.duration = d, !.bpm = b, !.offset = o,
                            !.pc = IF Falsy(d) THEN "thrown"
                                   ELSE "getTrackState"]
  /\ UNCHANGED <<arrays, held, besideGrid>>

\* const beatInterval = 60 / (adjustedBpm || bpm || 1)
BeatInterval(adjustedBpm, bpm) == MsPerMinute \div Or3(adjustedBpm, bpm, 1)

\* let { adjustedBpm, beatResolution = 0.25, mixpoint } = TrackState
\* const skipLength = beatInterval * (1 / beatResolution)
SkipLength(beatInterval, beatResolution) ==
  (beatInterval * 4) \div (IF beatResolution = Unset THEN 1 ELSE beatResolution)

\* while (startPoint - beatInterval > 0) startPoint -= beatInterval
RECURSIVE ZeroTimeFromZero(_, _)
ZeroTimeFromZero(startPoint, beatInterval) ==
  IF startPoint - beatInterval >= 0
  THEN ZeroTimeFromZero(startPoint - beatInterval, beatInterval)
  ELSE startPoint

RECURSIVE ZeroTime(_, _)
ZeroTime(startPoint, beatInterval) ==
  IF startPoint - beatInterval > 0
  THEN ZeroTime(startPoint - beatInterval, beatInterval)
  ELSE startPoint

\* for (let time = startPoint; time < duration; time += skipLength)
\*   regions.push({ start: time, end: time + skipLength, ... })
RECURSIVE RegionsFrom(_, _, _)
RegionsFrom(time, duration, skipLength) ==
  IF time < duration
  THEN <<[start |-> time, end |-> time + skipLength]>>
       \o RegionsFrom(time + skipLength, duration, skipLength)
  ELSE <<>>

\* the start times of a grid, which calcMarkers draws the markers at
Starts(regions) == [k \in 1..Len(regions) |-> regions[k].start]

\* the array every call returns
NewArrayShared(made) == 1

\* const regions = []: an array no earlier call has made
NewArray(made) == Len(made) + 1

\* the array at ref holds regions
Store(made, ref, regions) ==
  [i \in 1..(IF ref > Len(made) THEN ref ELSE Len(made)) |->
     IF i = ref THEN regions ELSE made[i]]

\* the values a grid is computed from
Input(c) == [duration |-> c.duration, bpm |-> c.bpm, offset |-> c.offset,
             adjustedOffset |-> c.adjustedOffset,
             adjustedBpm |-> c.adjustedBpm,
             beatResolution |-> c.beatResolution]

\* after getTrackState: the grid and the return
CalcRegionsTrackState ==
  /\ calc.pc = "getTrackState"
  /\ LET beatInterval == BeatInterval(calc.adjustedBpm, calc.bpm)
         skipLength == SkipLength(beatInterval, calc.beatResolution)
         startPoint == ZeroTime(Or3(calc.adjustedOffset, calc.offset, 0),
                                beatInterval)
         regions == RegionsFrom(startPoint, calc.duration, skipLength)
     IN /\ calc' = [calc EXCEPT !.pc = "returned", !.skipLength = skipLength,
                      !.regions = regions]
        /\ arrays' = Store(arrays, NewArray(arrays), regions)
        /\ held' = Append(held, [input |-> Input(calc),
                                 regions |-> NewArray(arrays)])
  /\ UNCHANGED besideGrid

\* calcRegions is called again, after the call before has ended
CalcRegionsAgain(args) ==
  /\ calc.pc \in {"returned", "thrown"}
  /\ Len(held) < MaxGrids
  /\ calc' = [pc |-> "call", duration |-> args.duration,
              offset |-> args.offset, adjustedOffset |-> args.adjustedOffset,
              bpm |-> args.bpm, adjustedBpm |-> args.adjustedBpm,
              beatResolution |-> args.beatResolution,
              skipLength |-> Unset, regions |-> <<>>]
  /\ UNCHANGED <<arrays, held, besideGrid>>

\* ---------------------------------------------------------------- audioEvents
PlayTracks == {1, 2}               \* the tracks with an audioState entry
TrackOrder == <<1, 2>>             \* Object.entries(audioState)
PlayCalls == {1, 2}                \* pending play calls
SamplerPeriod == 20                \* setInterval(..., 20)
FiveMs == 5                        \* 0.005 s
NegInfinity == -2                  \* Math.max() of no volumes
DefaultRate == [num |-> 1, den |-> 1]

\* waveform.skipLength and waveform.markers.markers of every track: the grid
\* of a 2 s track at 120 bpm, offset 0.2 s, beatResolution 1
TrackSkipLength == SkipLength(BeatInterval(Unset, 120), 4)
TrackMarkers ==
  Starts(RegionsFrom(ZeroTime(200, BeatInterval(Unset, 120)), 2000,
                     TrackSkipLength))

\* what a track is loaded with
Loaded == [waveform |-> TRUE, player |-> TRUE, stems |-> FALSE,
           stemPlayers |-> {}, adjustedBpm |-> Unset, bpm |-> 120]
NotLoaded == [Loaded EXCEPT !.waveform = FALSE]
TrackSetups ==
  { Loaded,
    [Loaded EXCEPT !.adjustedBpm = 140],
    [Loaded EXCEPT !.adjustedBpm = 140, !.stems = TRUE,
                   !.stemPlayers = StemNames] }

IdleAudio == [playing |-> FALSE, time |-> 0, volumeMeter |-> 0,
              stemMeters |-> {}, volumeMeterInterval |-> Unset,
              playhead |-> 0, startRef |-> Unset,
              rate |-> DefaultRate, stemRate |-> DefaultRate]

IdlePlay == [pc |-> "idle", trackId |-> NoTrackId, contextStartTime |-> Unset,
             todo |-> <<>>, time |-> <<>>, adjustedBpm |-> Unset,
             bySeek |-> FALSE]

NoSeek == [by |-> "none", track |-> NoTrackId, startTime |-> Unset,
           direction |-> "none", index |-> Unset, time |-> Unset,
           moved |-> FALSE, playing |-> FALSE]

\* clearVolumeMeter(trackId): clearInterval of the stored handle
ClearVolumeMeter(live, audio, t) ==
  [h \in (DOMAIN live) \ {audio[t].volumeMeterInterval} |-> live[h]]

Range(seq) == {seq[k] : k \in 1..Len(seq)}

\* the smallest free slot for a new play call
FreePlay(calls) == {p \in PlayCalls : calls[p].pc = "idle"
                                      /\ \A q \in PlayCalls :
                                           q < p => calls[q].pc # "idle"}

\* play(trackId), up to `await start()`
Called(trackId, bySeek) ==
  [IdlePlay EXCEPT !.pc = "start", !.trackId = trackId, !.bySeek = bySeek]

PlayCall(p, trackId) ==
  /\ p \in FreePlay(pl)
  /\ pl' = [pl EXCEPT ![p] = Called(trackId, FALSE)]
  /\ UNCHANGED <<besidePlay, mix, au, clock, timers, timersMade, lastSeek>>

\* the head of the loop body for the next track of the call, up to
\* `await getTrackPrefs`, or the end of the loop
NextTrack(call, todo) ==
  IF todo = <<>> THEN IdlePlay
  ELSE [call EXCEPT !.pc = "getTrackPrefs", !.todo = todo,
                    !.adjustedBpm = Unset]

\* if (!waveform || !player || (trackId && id !== String(trackId))) continue
SkippedUnlessLoaded(t, trackId) == ~ mix[t].waveform \/ ~ mix[t].player

Skipped(t, trackId) ==
  \/ ~ mix[t].waveform
  \/ ~ mix[t].player
  \/ (trackId # NoTrackId /\ t # trackId)

\* after `await start()`: const contextStartTime = now(), the entries of
\* audioState, and the first track up to `await getTrackPrefs`
PlayStart(p) ==
  /\ pl[p].pc = "start"
  /\ LET id == pl[p].trackId
         todo == SelectSeq(TrackOrder, LAMBDA t : ~ Skipped(t, id))
         call == [pl[p] EXCEPT !.contextStartTime = clock,
                               !.time = [t \in Range(todo) |-> au[t].time]]
     IN /\ pl' = [pl EXCEPT ![p] = NextTrack(call, todo)]
        /\ timers' = IF todo = <<>> THEN timers
                     ELSE ClearVolumeMeter(timers, au, Head(todo))
  /\ UNCHANGED <<besidePlay, mix, au, clock, timersMade, lastSeek>>

\* the clock reference a player is started with
ClockPerPlayer(call) == clock

StartReference(call) == call.contextStartTime

\* if (adjustedBpm && bpm) player.playbackRate = adjustedBpm / bpm
StemRate(old, adjustedBpm, bpm) ==
  IF ~ Falsy(adjustedBpm) /\ ~ Falsy(bpm)
  THEN [num |-> adjustedBpm, den |-> bpm] ELSE old

\* the rest of the loop body for the track at the head of todo: the players
\* are started, the interval is created and stored, playing becomes true;
\* then the head of the loop body for the next track
StartTrack(p, adjustedBpm, bpm) ==
  LET call == pl[p]
      t == Head(call.todo)
      h == timersMade + 1
      a == [au[t] EXCEPT
              !.stemRate = IF mix[t].stems /\ mix[t].stemPlayers # {}
                           THEN StemRate(@, adjustedBpm, bpm) ELSE @,
              !.startRef = IF mix[t].stems /\ mix[t].stemPlayers = {}
                           THEN @ ELSE StartReference(call),
              !.volumeMeterInterval = h,
              !.playing = TRUE]
      audio == [au EXCEPT ![t] = a]
      live == [k \in (DOMAIN timers) \cup {h} |->
                 IF k = h
                 THEN [track |-> t, time |-> call.time[t],
                       contextStartTime |-> call.contextStartTime]
                 ELSE timers[k]]
      rest == Tail(call.todo)
  IN /\ timersMade < MaxTimers
     /\ timersMade' = h
     /\ au' = audio
     /\ pl' = [pl EXCEPT ![p] = NextTrack(call, rest)]
     /\ timers' = IF rest = <<>> THEN live
                  ELSE ClearVolumeMeter(live, audio, Head(rest))

\* const { adjustedBpm } = await getTrackPrefs(Number(id))
PlayGetTrackPrefs(p) ==
  /\ pl[p].pc = "getTrackPrefs"
  /\ LET adjustedBpm == mix[Head(pl[p].todo)].adjustedBpm IN
       IF ~ Falsy(adjustedBpm)
       THEN /\ pl' = [pl EXCEPT ![p].pc = "getTrack",
                                ![p].adjustedBpm = adjustedBpm]
            /\ UNCHANGED <<au, timers, timersMade>>
       ELSE StartTrack(p, adjustedBpm, Unset)
  /\ UNCHANGED <<besidePlay, mix, clock, lastSeek>>

\* ;({ bpm } = (await db.tracks.get(Number(id))) || {})
PlayGetTrack(p) ==
  /\ pl[p].pc = "getTrack"
  /\ StartTrack(p, pl[p].adjustedBpm, mix[Head(pl[p].todo)].bpm)
  /\ UNCHANGED <<besidePlay, mix, clock, lastSeek>>

\* the tracks pause(trackId) and pause() go through
Affected(trackId) == IF trackId # NoTrackId THEN {trackId} ELSE PlayTracks

\* the body of pause for the tracks ids
Paused(audio, ids) ==
  [t \in PlayTracks |->
     IF t \in ids
     THEN [audio[t] EXCEPT !.stemMeters = IF mix[t].stems THEN {} ELSE @,
                           !.startRef = Unset,
                           !.volumeMeter = 0,
                           !.volumeMeterInterval = - 1,
                           !.playing = FALSE]
     ELSE audio[t]]

PausedTimers(live, audio, ids) ==
  [h \in (DOMAIN live) \ {audio[t].volumeMeterInterval : t \in ids} |-> live[h]]

\* pause(trackId?): it has no await
Pause(trackId) ==
  /\ au' = Paused(au, Affected(trackId))
  /\ timers' = PausedTimers(timers, au, Affected(trackId))
  /\ UNCHANGED <<besidePlay, mix, clock, timersMade, pl, lastSeek>>

\* the callback of the interval h
Tick(h) ==
  /\ h \in DOMAIN timers
  /\ LET t == timers[h].track
         meters == IF mix[t].stems THEN mix[t].stemPlayers ELSE {} IN
       au' = [au EXCEPT
                ![t].stemMeters = @ \cup meters,
                ![t].volumeMeter = IF meters = {} THEN NegInfinity ELSE 1,
                ![t].time = timers[h].time + clock
                            - timers[h].contextStartTime]
  /\ UNCHANGED <<besidePlay, mix, clock, timers, timersMade, pl, lastSeek>>

\* destroy(trackId): the waveform is destroyed and the entry of the track is
\* deleted from audioState, with its waveform, its players and its fields
DestroyTrack(trackId) ==
  /\ mix' = [mix EXCEPT ![trackId].waveform = FALSE,
                        ![trackId].player = FALSE,
                        ![trackId].stems = FALSE,
                        ![trackId].stemPlayers = {}]
  /\ au' = [au EXCEPT ![trackId] = IdleAudio]
  /\ destroyed' = destroyed \cup {trackId}
  /\ UNCHANGED <<stemVars, gridVars, controlVars, eventVars, mixVars, fadeVars, nav,
                 cacheVars, clock, timers, timersMade, pl, lastSeek>>

\* the audio context's clock moves on by one period of the meter timer
ClockAdvance ==
  /\ clock < MaxTicks * SamplerPeriod
  /\ clock' = clock + SamplerPeriod
  /\ UNCHANGED <<besidePlay, mix, au, timers, timersMade, pl, lastSeek>>

\* Math.floor(x / y) and Math.round(x / y) for x >= 0, y > 0
FloorDiv(x, y) == x \div y
RoundDiv(x, y) == (2 * x + y) \div (2 * y)

\* direction ? (direction == 'next' ? 1 : -1) : 0
Step(direction) == CASE direction = "next" -> 1
                     [] direction = "previous" -> -1
                     [] OTHER -> 0

\* audioEvents.seek:
\*   const currentMarkerIndex = Math.floor(startTime / waveform.skipLength)
SeekIndex(startTime, direction) ==
  FloorDiv(startTime, TrackSkipLength) + Step(direction)

\* seekEvent:
\*   const currentMarkerIndex = Math.round(startTime / waveform.skipLength)
SeekEventIndex(startTime, direction) ==
  RoundDiv(startTime, TrackSkipLength) + Step(direction)

\* const { time } = markers[newIndex] || {}
MarkerTime(index) ==
  IF index + 1 \in 1..Len(TrackMarkers) THEN TrackMarkers[index + 1] ELSE Unset

\* time && (time > startTime + 0.005 || time < startTime - 0.005)
Moves(time, startTime) ==
  ~ Falsy(time) /\ (time > startTime + FiveMs \/ time < startTime - FiveMs)

\* if (playing) audioEvents.play(trackId)
ResumeAlways(playing) == TRUE

Resume(playing) == playing

\* audioEvents.seek(trackId, startTime, direction). `await audioEvents.pause`
\* resumes in the same turn of the event loop; the play call at the end is
\* not awaited and runs up to its `await start()`
Seek(trackId, startTime, direction) ==
  /\ mix[trackId].waveform
  /\ LET playing == au[trackId].playing
         paused == IF playing THEN Paused(au, {trackId}) ELSE au
         start == IF Falsy(startTime) THEN au[trackId].playhead ELSE startTime
         index == SeekIndex(start, direction)
         time == MarkerTime(index)
         moved == Moves(time, start)
     IN /\ Resume(playing) => FreePlay(pl) # {}
        /\ timers' = IF playing THEN PausedTimers(timers, au, {trackId})
                     ELSE timers
        /\ au' = IF moved
                 THEN [paused EXCEPT ![trackId].playhead = time,
                                     ![trackId].time = time]
                 ELSE paused
        /\ pl' = IF Resume(playing)
                 THEN [pl EXCEPT ![CHOOSE p \in FreePlay(pl) : TRUE] =
                                   Called(trackId, TRUE)]
                 ELSE pl
        /\ lastSeek' = [by |-> "seek", track |-> trackId, startTime |-> start,
                        direction |-> direction, index |-> index,
                        time |-> time, moved |-> moved, playing |-> playing]
  /\ UNCHANGED <<besidePlay, mix, clock, timersMade>>

\* seekEvent({ time, direction }) of loadAudioEvents, the seek of the
\* single-track audio events: the time defaults to the current position only
\* when it is undefined, nothing is paused or resumed, and a directional
\* seek skips forward by the distance to the marker
SeekEvent(trackId, startTime, direction) ==
  /\ mix[trackId].waveform
  /\ LET start == IF startTime = Unset THEN au[trackId].playhead
                  ELSE startTime
         index == SeekEventIndex(start, direction)
         time == MarkerTime(index)
         moved == Moves(time, start)
     IN /\ au' = IF moved
                 THEN [au EXCEPT ![trackId].playhead =
                         IF direction # "none" THEN @ + (time - start)
                         ELSE time]
                 ELSE au
        /\ lastSeek' = [by |-> "seekEvent", track |-> trackId,
                        startTime |-> start, direction |-> direction,
                        index |-> index, time |-> time, moved |-> moved,
                        playing |-> au[trackId].playing]
  /\ UNCHANGED <<besidePlay, mix, clock, timers, timersMade, pl>>

\* ------------------------------------------ bpm, offset, beatResolution
\* One loaded track: what the database holds for it (duration, bpm, offset,
\* adjustedOffset), its prefs (adjustedBpm, beatResolution), the markers drawn
\* on its waveform, and the call of a control that is pending.
ControlTrack == [duration |-> 2000, bpm |-> 120, offset |-> 200]
AdjustedBpmArgs == {Unset, 100, 150}
AdjustedOffsetArgs == {300, 1000}
BeatResolutionArgs == {Unset, 1, 2, 4}

\* calcMarkers(trackId, waveform): the markers are redrawn at the grid
\* calcRegions returns for what is stored now
CalcMarkers(c) ==
  LET beatInterval == BeatInterval(c.adjustedBpm, ControlTrack.bpm)
      skipLength == SkipLength(beatInterval, c.beatResolution)
      startPoint == ZeroTime(Or3(c.adjustedOffset, ControlTrack.offset, 0),
                             beatInterval)
  IN Starts(RegionsFrom(startPoint, ControlTrack.duration, skipLength))

\* the track as onReady leaves it: nothing adjusted, the markers drawn
LoadedControl ==
  LET c == [pc |-> "idle", arg |-> Unset, adjustedBpm |-> Unset,
            adjustedOffset |-> Unset, beatResolution |-> Unset,
            markers |-> <<>>]
  IN [c EXCEPT !.markers = CalcMarkers(c)]

\* audioEvents.bpm up to its first await
\* if (!waveform || !adjustedBpm) return
BpmCall(adjustedBpm) ==
  /\ ctl.pc = "idle"
  /\ ctl' = IF Falsy(adjustedBpm) THEN ctl
            ELSE [ctl EXCEPT !.pc = "bpm.getTrack", !.arg = adjustedBpm]
  /\ UNCHANGED besideControl

\* after db.tracks.get: the playback rates, up to setTrackPrefs
BpmGetTrack ==
  /\ ctl.pc = "bpm.getTrack"
  /\ ctl' = [ctl EXCEPT !.pc = "bpm.setTrackPrefs"]
  /\ UNCHANGED besideControl

\* setTrackPrefs(trackId, { adjustedBpm }) and the return
BpmSetTrackPrefs ==
  /\ ctl.pc = "bpm.setTrackPrefs"
  /\ ctl' = [ctl EXCEPT !.pc = "idle", !.arg = Unset,
                        !.adjustedBpm = ctl.arg]
  /\ UNCHANGED besideControl

\* audioEvents.offset up to its await
OffsetCall(adjustedOffset) ==
  /\ ctl.pc = "idle"
  /\ ctl' = [ctl EXCEPT !.pc = "offset.updateTrack", !.arg = adjustedOffset]
  /\ UNCHANGED besideControl

\* updateTrack(trackId, { adjustedOffset }), then calcMarkers
OffsetUpdateTrack ==
  /\ ctl.pc = "offset.updateTrack"
  /\ LET c == [ctl EXCEPT !.pc = "idle", !.arg = Unset,
                          !.adjustedOffset = ctl.arg]
     IN ctl' = [c EXCEPT !.markers = CalcMarkers(c)]
  /\ UNCHANGED besideControl

\* audioEvents.beatResolution up to its await
\* if (!waveform || !beatResolution) return
BeatResolutionCall(beatResolution) ==
  /\ ctl.pc = "idle"
  /\ ctl' = IF Falsy(beatResolution) THEN ctl
            ELSE [ctl EXCEPT !.pc = "beatResolution.setTrackPrefs",
                             !.arg = beatResolution]
  /\ UNCHANGED besideControl

\* setTrackPrefs(trackId, { beatResolution }), the zoom, then calcMarkers
BeatResolutionSetTrackPrefs ==
  /\ ctl.pc = "beatResolution.setTrackPrefs"
  /\ LET c == [ctl EXCEPT !.pc = "idle", !.arg = Unset,
                          !.beatResolution = ctl.arg]
     IN ctl' = [c EXCEPT !.markers = CalcMarkers(c)]
  /\ UNCHANGED besideControl

\* ------------------------------------------------------------- audioEvent
\* The listeners of one track id. A listener is the arrow function that
\* audioEvent.on hands to addEventListener; callback k is the waveformEffects
\* of the k-th loadAudioEvents call, and after[k] counts what had been emitted
\* when it was registered. The trace records where each delivery begins and
\* ends: n is the place of the delivered event in emitted.
MaxListeners == 2      \* loadAudioEvents calls for the track id
MaxEmitted == 3        \* events after which the controls emit no more

Arrow(callback) == [kind |-> "arrow", callback |-> callback]
WaveformEffects(k) == [kind |-> "waveformEffects", load |-> k]

EvSeek == [event |-> "seek", args |-> "none"]
EvNavPlay == [event |-> "nav", args |-> "Play"]
EvNavSetMixpoint == [event |-> "nav", args |-> "Set Mixpoint"]
EvMixpoint == [event |-> "mixpoint", args |-> "none"]
EvDestroy == [event |-> "destroy", args |-> "none"]
\* what the controls emit
ControlEvents == {EvSeek, EvNavPlay, EvNavSetMixpoint, EvDestroy}

NoEvents == [listeners |-> <<>>, after |-> <<>>, emitted |-> <<>>,
             trace |-> <<>>, waveform |-> FALSE]

\* window.removeEventListener(String(trackId), callback): the listener that
\* is this very function is removed
Off(listeners, callback) == SelectSeq(listeners, LAMBDA f : f # callback)

\* whether f is one of the listeners
Listens(listeners, f) == \E i \in 1..Len(listeners) : listeners[i] = f

Mark(e, k, n, kind) ==
  [e EXCEPT !.trace = Append(@, [listener |-> k, n |-> n, kind |-> kind])]

RECURSIVE Emit(_, _)
RECURSIVE Deliver(_, _, _, _, _)
RECURSIVE WaveformEffectsCall(_, _, _)

\* waveformEffects({ event, args }) of load k
WaveformEffectsCall(e, k, event) ==
  CASE event = EvNavSetMixpoint -> Emit(e, EvMixpoint)
    [] event = EvDestroy ->
         [e EXCEPT !.listeners = Off(@, WaveformEffects(k)),
                   !.waveform = FALSE]
    [] OTHER -> e

\* dispatchEvent calls the listeners there were when it began, in the order
\* of their registration, each unless it was removed in between
Deliver(e, listeners, i, event, n) ==
  IF i > Len(listeners) THEN e
  ELSE IF ~ Listens(e.listeners, listeners[i])
       THEN Deliver(e, listeners, i + 1, event, n)
       ELSE LET k == listeners[i].callback.load
                called == WaveformEffectsCall(Mark(e, k, n, "begin"), k, event)
            IN Deliver(Mark(called, k, n, "end"), listeners, i + 1, event, n)

\* audioEvent.emit(trackId, event, args)
Emit(e, event) ==
  LET emitted == [e EXCEPT !.emitted = Append(@, event)]
  IN Deliver(emitted, emitted.listeners, 1, event, Len(emitted.emitted))

\* loadAudioEvents({ trackId, waveform }): audioEvent.on(trackId,
\* waveformEffects)
LoadAudioEvents ==
  /\ Len(ev.after) < MaxListeners
  /\ LET k == Len(ev.after) + 1
     IN ev' = [ev EXCEPT
                 !.listeners = Append(@, Arrow(WaveformEffects(k))),
                 !.after = Append(@, Len(ev.emitted)),
                 !.waveform = TRUE]
  /\ UNCHANGED besideEvents

\* a control emits an event for the track id
EmitEvent(event) ==
  /\ Len(ev.emitted) < MaxEmitted
  /\ ev' = Emit(ev, event)
  /\ UNCHANGED besideEvents

\* ---------------------------------------------------------------- addToMix
MixTrackIds == {1, 2}
TrackSlots == {Unset, 0, 1}
AddCalls == {1, 2}

EmptyMix == [i \in {} |-> 0]
\* file: what getPermission returned to the last call
IdleAdd == [pc |-> "idle", trackId |-> 0, trackSlot |-> Unset, index |-> Unset,
            occupant |-> 0, file |-> FALSE]
NoTrackState == [t \in MixTrackIds |-> "none"]

\* tracks[i] of a JavaScript array: 0 stands for undefined
SlotOf(tracks, i) == IF i \in DOMAIN tracks THEN tracks[i] ELSE 0

\* tracks[index] = trackId
SetSlot(tracks, index, trackId) ==
  [i \in (DOMAIN tracks) \cup {index} |->
     IF i = index THEN trackId ELSE tracks[i]]

\* trackSlot ?? tracks[0] ? 1 : 0
SlotIndex(trackSlot, tracks) ==
  LET chosen == IF trackSlot = Unset THEN SlotOf(tracks, 0) ELSE trackSlot
  IN IF chosen # 0 THEN 1 ELSE 0

\* audioEvents.ejectTrack(trackId): the slots the track occupies are emptied
EjectTrack(tracks, trackId) ==
  [i \in DOMAIN tracks |-> IF tracks[i] = trackId THEN 0 ELSE tracks[i]]

\* audioState[trackId] = {}; mixState.trackState[trackId] = {}
FreshState(states, trackId) == [states EXCEPT ![trackId] = "empty"]

\* addToMix(trackId, trackSlot) up to its first await
AddToMixCall(c, trackId, trackSlot) ==
  /\ am[c].pc = "idle"
  /\ am' = [am EXCEPT ![c] = [pc |-> "getPermission", trackId |-> trackId,
                              trackSlot |-> trackSlot, index |-> Unset,
                              occupant |-> 0, file |-> FALSE]]
  /\ UNCHANGED <<mixState, trackState, besideMix>>

\* after getPermission: without a file the call returns; the slot is chosen
\* and, when it is empty, written; when it is taken the call awaits the
\* ejectTrack of the track it has found there
AddToMixGetPermission(c) ==
  /\ am[c].pc = "getPermission"
  /\ \E file \in BOOLEAN :
       LET index == SlotIndex(am[c].trackSlot, mixState) IN
       IF ~ file
       THEN am' = [am EXCEPT ![c] = IdleAdd] /\ UNCHANGED <<mixState, trackState>>
       ELSE IF SlotOf(mixState, index) # 0
            THEN /\ am' = [am EXCEPT ![c].pc = "ejectTrack",
                                     ![c].index = index,
                                     ![c].occupant = SlotOf(mixState, index),
                                     ![c].file = TRUE]
                 /\ UNCHANGED <<mixState, trackState>>
            ELSE /\ mixState' = SetSlot(mixState, index, am[c].trackId)
                 /\ trackState' = FreshState(trackState, am[c].trackId)
                 /\ am' = [am EXCEPT ![c] = [IdleAdd EXCEPT !.file = TRUE]]
  /\ UNCHANGED besideMix

\* after ejectTrack of the track that was found in the slot: its state is
\* deleted, the slot is written
AddToMixEjectTrack(c) ==
  /\ am[c].pc = "ejectTrack"
  /\ mixState' = SetSlot(EjectTrack(mixState, am[c].occupant),
                         am[c].index, am[c].trackId)
  /\ trackState' = FreshState([trackState EXCEPT ![am[c].occupant] = "none"],
                              am[c].trackId)
  /\ am' = [am EXCEPT ![c] = [IdleAdd EXCEPT !.file = TRUE]]
  /\ UNCHANGED besideMix

\* audioState[trackId].stemState = accessState, of a track that has its entry
SetStemState(trackId) ==
  /\ trackState[trackId] = "empty"
  /\ trackState' = [trackState EXCEPT ![trackId] = "written"]
  /\ UNCHANGED <<mixState, am, besideMix>>

\* --------------------------------------------- crossfade and stem volumes
\* Gains and volumes are in thousandths. Track 1 has stems, track 2 has none.
FadeTracks == {1, 2}
FadeStems == {"drums", "bass"}
SliderVals == {0, 25, 50, 100}
StemVolumes == {0, 500}
FadeCalls == {1}
NoStem == "none"                    \* no stemType given
NoStems == <<>>                     \* audioState[id].stems is undefined
Full == 1000                        \* a gain or a volume of 1

\* Math.cos(sliderPercent * Math.PI), in thousandths, for sliderVal from 0 to
\* 100 in steps of 25
CosPi(sliderVal) ==
  CASE sliderVal = 0 -> 1000
    [] sliderVal = 25 -> 707
    [] sliderVal = 50 -> 0
    [] sliderVal = 75 -> -707
    [] sliderVal = 100 -> -1000

Min(a, b) == IF a <= b THEN a ELSE b

\* the two volumes the other way round
VolumesSwapped(sliderVal) ==
  << Min(Full, Full + CosPi(100 - sliderVal)),
     Min(Full, Full + CosPi(sliderVal)) >>

\* volumes = [Math.min(1, 1 + Math.cos(sliderPercent * Math.PI)),
\*            Math.min(1, 1 + Math.cos((1 - sliderPercent) * Math.PI))]
Volumes(sliderVal) ==
  << Min(Full, Full + CosPi(sliderVal)),
     Min(Full, Full + CosPi(100 - sliderVal)) >>

\* a stem as it is loaded: gain 1, no volume stored, not muted
LoadedStem == [gainNode |-> TRUE, gain |-> Full, volume |-> Unset,
               mute |-> FALSE]
LoadedGains ==
  [t \in FadeTracks |->
     [gainNode |-> TRUE, gain |-> Full,
      stems |-> IF t = 1 THEN [st \in FadeStems |-> LoadedStem] ELSE NoStems]]

IdleFade == [pc |-> "idle", sliderVal |-> 0, stemType |-> NoStem]

\* updateVolume without the test of stemType
UpdateVolumeEveryStem(g, trackId, volume, stemType) ==
  IF g[trackId].stems = NoStems
  THEN IF g[trackId].gainNode THEN [g EXCEPT ![trackId].gain = volume] ELSE g
  ELSE LET stems == g[trackId].stems
       IN [g EXCEPT ![trackId].stems =
             [st \in DOMAIN stems |->
                IF ~ stems[st].gainNode
                THEN stems[st] ELSE [stems[st] EXCEPT !.gain = volume]]]

\* updateVolume(trackId, volume, stemType)
UpdateVolume(g, trackId, volume, stemType) ==
  IF g[trackId].stems = NoStems
  THEN IF g[trackId].gainNode THEN [g EXCEPT ![trackId].gain = volume] ELSE g
  ELSE LET stems == g[trackId].stems
       IN [g EXCEPT ![trackId].stems =
             [st \in DOMAIN stems |->
                IF (stemType # NoStem /\ st # stemType) \/ ~ stems[st].gainNode
                THEN stems[st] ELSE [stems[st] EXCEPT !.gain = volume]]]

\* tracks.forEach((track, i) => { if (track) updateVolume(track, volumes[i],
\* stemType) })
RECURSIVE ForEachTrack(_, _, _, _, _)
ForEachTrack(g, tracks, i, volumes, stemType) ==
  IF i > Len(tracks) THEN g
  ELSE ForEachTrack(IF tracks[i] # 0
                    THEN UpdateVolume(g, tracks[i], volumes[i], stemType)
                    ELSE g,
                    tracks, i + 1, volumes, stemType)

\* crossfade(sliderVal, stemType) up to its await
CrossfadeCall(c, sliderVal, stemType) ==
  /\ cf.calls[c].pc = "idle"
  /\ cf' = [cf EXCEPT !.calls[c] = [pc |-> "getPrefs",
                                    sliderVal |-> sliderVal,
                                    stemType |-> stemType]]
  /\ UNCHANGED <<gn, besideFade>>

\* after getPrefs('mix'): if (!tracks) return; the volumes are applied
CrossfadeGetPrefs(c) ==
  /\ cf.calls[c].pc = "getPrefs"
  /\ gn' = IF cf.tracks = <<>> THEN gn
           ELSE ForEachTrack(gn, cf.tracks, 1, Volumes(cf.calls[c].sliderVal),
                             cf.calls[c].stemType)
  /\ cf' = [cf EXCEPT !.calls[c].pc = "idle"]
  /\ UNCHANGED besideFade

\* stemVolume(trackId, stemType, volume)
StemVolumeSet(g, trackId, stemType, volume) ==
  IF g[trackId].stems = NoStems THEN g
  ELSE LET old == g[trackId].stems[stemType]
       IN [g EXCEPT ![trackId].stems[stemType] =
             [old EXCEPT !.gain = IF old.gainNode THEN volume ELSE old.gain,
                         !.volume = volume]]

StemVolume(trackId, stemType, volume) ==
  /\ gn' = StemVolumeSet(gn, trackId, stemType, volume)
  /\ UNCHANGED <<cf, besideFade>>

\* stemMuteToggle(trackId, stemType, mute)
\*   gainNode.gain.setValueAtTime(mute ? 0 : volume || 1, now())
StemMuteToggled(g, trackId, stemType, mute) ==
  IF g[trackId].stems = NoStems THEN g
  ELSE LET old == g[trackId].stems[stemType]
       IN [g EXCEPT ![trackId].stems[stemType] =
             [old EXCEPT !.gain = IF ~ old.gainNode THEN old.gain
                                  ELSE IF mute THEN 0
                                  ELSE IF Falsy(old.volume) THEN Full
                                  ELSE old.volume,
                         !.mute = mute]]

StemMuteToggle(trackId, stemType, mute) ==
  /\ gn' = StemMuteToggled(gn, trackId, stemType, mute)
  /\ UNCHANGED <<cf, besideFade>>

\* for (const s of Object.keys(stems))
\*   if (s != stem) audioEvents.stemMuteToggle(trackId, s, solo)
RECURSIVE MuteEach(_, _, _, _)
MuteEach(g, trackId, others, solo) ==
  IF others = {} THEN g
  ELSE LET st == CHOOSE x \in others : TRUE
       IN MuteEach(StemMuteToggled(g, trackId, st, solo), trackId,
                   others \ {st}, solo)

\* stemSoloToggle(trackId, stem, solo)
StemSoloToggled(g, trackId, stem, solo) ==
  IF g[trackId].stems = NoStems THEN g
  ELSE MuteEach(g, trackId, (DOMAIN g[trackId].stems) \ {stem}, solo)

StemSoloToggle(trackId, stem, solo) ==
  /\ gn' = StemSoloToggled(gn, trackId, stem, solo)
  /\ UNCHANGED <<cf, besideFade>>

\* ------------------------------------------- previous and next beat marker
\* the markers calcMarkers draws for a track of 2 s, and waveform.skipLength
GridOf(bpm, offset, beatResolution) ==
  LET beatInterval == BeatInterval(Unset, bpm)
      skipLength == SkipLength(beatInterval, beatResolution)
  IN [skipLength |-> skipLength,
      markers |-> Starts(RegionsFrom(ZeroTime(Or3(Unset, offset, 0),
                                              beatInterval),
                                     ControlTrack.duration, skipLength))]

\* const { time } = markers[newIndex] || {}
MarkerAt(markers, index) ==
  IF index + 1 \in 1..Len(markers) THEN markers[index + 1] ELSE Unset

\* audioEvents.seek(trackId, undefined, direction) on a paused track: where
\* the playhead is afterwards
SeekTo(grid, playhead, direction) ==
  LET index == FloorDiv(playhead, grid.skipLength) + Step(direction)
      time == MarkerAt(grid.markers, index)
  IN IF Moves(time, playhead) THEN time ELSE playhead

\* seekEvent({ direction }): where the playhead is afterwards
SeekEventTo(grid, playhead, direction) ==
  LET index == RoundDiv(playhead, grid.skipLength) + Step(direction)
      time == MarkerAt(grid.markers, index)
  IN IF Moves(time, playhead) THEN playhead + (time - playhead) ELSE playhead

NavSeek(direction) ==
  /\ nav' = [nav EXCEPT !.playhead = SeekTo(nav.grid, @, direction)]
  /\ UNCHANGED besideNav

NavSeekEvent(direction) ==
  /\ nav' = [nav EXCEPT !.playhead = SeekEventTo(nav.grid, @, direction)]
  /\ UNCHANGED besideNav

\* -------------------------------------------------------- storeTrackCache
StoreCalls == {1, 2}            \* pending storeTrackCache calls
StoredIds == {1, 26}            \* ids the calls store
StoredStems == {{}, {"bass"}}

IdleStore == [pc |-> "idle", id |-> 0, file |-> FALSE, stems |-> {},
              cache |-> NoEntry, entry |-> NoEntry]

\* a cache of n tracks, each with its file, the first with a stem
CacheOf(n) == [i \in 1..n |->
                [file |-> TRUE, stems |-> IF i = 1 THEN {"drums"} ELSE {}]]

\* storeTrackCache({ id, file, stems })
StoreTrackCacheCall(c, id, file, stems) ==
  /\ sc[c].pc = "idle"
  /\ sc' = [sc EXCEPT ![c] = [pc |-> "get", id |-> id, file |-> file,
                              stems |-> stems, cache |-> NoEntry,
                              entry |-> NoEntry]]
  /\ UNCHANGED <<trackCache, besideCache>>

\* const cache = await db.trackCache.get(id), and the merge with the arguments
StoreTrackCacheGet(c) ==
  /\ sc[c].pc = "get"
  /\ sc' = [sc EXCEPT ![c].pc = "count",
                      ![c].cache = CacheGet(sc[c].id),
                      ![c].entry = StoreMerge(CacheGet(sc[c].id), sc[c].file,
                                              sc[c].stems)]
  /\ UNCHANGED <<trackCache, besideCache>>

\* const count = await db.trackCache.count(); if (count > CACHE_LIMIT)
StoreTrackCacheCount(c) ==
  /\ sc[c].pc = "count"
  /\ sc' = [sc EXCEPT ![c].pc = IF Cardinality(DOMAIN trackCache) > CACHE_LIMIT
                                THEN "first" ELSE "put"]
  /\ UNCHANGED <<trackCache, besideCache>>

\* const oldest = await db.trackCache.orderBy('id').first()
\* if (oldest) db.trackCache.delete(oldest.id): the delete is not awaited, it
\* is queued on the table ahead of the put
StoreTrackCacheFirst(c) ==
  /\ sc[c].pc = "first"
  /\ trackCache' = IF DOMAIN trackCache = {} THEN trackCache
                   ELSE [i \in (DOMAIN trackCache) \ {Oldest(trackCache)} |->
                           trackCache[i]]
  /\ sc' = [sc EXCEPT ![c].pc = "put"]
  /\ UNCHANGED besideCache

\* await db.trackCache.put({ id, file, stems })
StoreTrackCachePut(c) ==
  /\ sc[c].pc = "put"
  /\ trackCache' = [i \in (DOMAIN trackCache) \cup {sc[c].id} |->
                      IF i = sc[c].id THEN sc[c].entry ELSE trackCache[i]]
  /\ sc' = [sc EXCEPT ![c] = IdleStore]
  /\ UNCHANGED besideCache

\* ------------------------------------------------------------ specification
\* no control of a track is in use
ControlQuiet == ctl = LoadedControl
\* nothing listens and nothing was emitted
EventsQuiet == ev = NoEvents
\* an empty mix
MixQuiet == /\ mixState = EmptyMix /\ am = [c \in AddCalls |-> IdleAdd]
            /\ trackState = NoTrackState
\* no crossfade, every gain as loaded
FadeQuiet == gn = LoadedGains
             /\ cf = [tracks |-> <<>>, calls |-> [c \in FadeCalls |-> IdleFade]]
\* the track of the play model, its playhead at the start
NavQuiet == nav = [grid |-> GridOf(120, 200, 4), playhead |-> 0]
\* no storeTrackCache call is pending
CacheQuiet == sc = [c \in StoreCalls |-> IdleStore]
RestQuiet == ControlQuiet /\ EventsQuiet /\ destroyed = {} /\ MixQuiet
             /\ FadeQuiet /\ NavQuiet /\ CacheQuiet

\* nothing loaded, nothing playing
PlayQuiet ==
  /\ mix = [t \in PlayTracks |->
             [waveform |-> FALSE, player |-> FALSE, stems |-> FALSE,
              stemPlayers |-> {}, adjustedBpm |-> Unset, bpm |-> Unset]]
  /\ au = [t \in PlayTracks |-> IdleAudio]
  /\ clock = 0 /\ timers = <<>> /\ timersMade = 0
  /\ pl = [p \in PlayCalls |-> IdlePlay]
  /\ lastSeek = NoSeek

NoDir == [exists |-> FALSE, files |-> {}]
OwnFiles(stems) == {StemFileName(s) : s \in stems}
InitDirs ==
  { NoDir,
    [exists |-> TRUE, files |-> OwnFiles({"drums", "bass", "vocals"})
                        \cup {[base |-> ForeignBase, tail |-> "bass"]}],
    [exists |-> TRUE, files |-> OwnFiles(StemNames)
                        \cup {[base |-> OwnBase, tail |-> "notes"]}] }

InitCaches ==
  { <<>> } \cup
  { [t \in Tracks |-> e] : e \in [file : {TRUE}, stems : {{}, StemNames}] }

\* Generation gets furthest for a track in the mix whose file is cached, with
\* a granted stems directory and nothing on disk or in the cache yet.
Fresh ==
  /\ audioLoaded = Tracks /\ trackName = Tracks
  /\ \A t \in Tracks : CacheGet(t) = [file |-> TRUE, stems |-> {}]
  /\ \A t \in Tracks : stemDir[t] = NoDir
  /\ prefsHandle = 1 /\ handlePerm[1] = "granted"

\* Every environment is run with one stemAudio call; the fresh one also with
\* a second call, which may overlap the first.
Init ==
  /\ audioLoaded \in SUBSET Tracks
  /\ stemState = [t \in Tracks |-> Undefined]
  /\ stemTimer = [t \in Tracks |-> 0]
  /\ stemsAnalyzing = {}
  /\ trackCache \in InitCaches
  /\ trackName \in SUBSET Tracks
  /\ prefsHandle \in {0, 1}
  /\ handlesMade = prefsHandle
  /\ \E p \in {"granted", "prompt", "gone"} :
       handlePerm = [h \in Handles |->
                       IF h = 1 /\ prefsHandle = 1 THEN p ELSE "prompt"]
  /\ stemDir \in [Tracks -> InitDirs]
  /\ service = [t \in Tracks |-> "none"]
  /\ wf = [w \in Workflows |-> IdleWorkflow]
  /\ va = [c \in Calls |-> IdleCall]
  /\ requests = IF Fresh THEN Workflows ELSE {1}
  /\ GridQuiet
  /\ PlayQuiet
  /\ RestQuiet

Next ==
  \/ \E c \in Calls, t \in Tracks \cup {NoTrackId} : ValidateCall(c, t)
  \/ \E c \in Calls : ValidateCacheGet(c)
  \/ \E c \in Calls : ValidateGetPrefs(c)
  \/ \E c \in Calls : ValidateQueryPermission(c)
  \/ \E c \in Calls : ValidateGetTrack(c)
  \/ \E c \in Calls : ValidateGetDirectoryHandle(c)
  \/ \E c \in Calls : ValidateEntries(c)
  \/ \E c \in Calls : ValidateStoreGet(c)
  \/ \E c \in Calls : ValidateStorePut(c)
  \/ \E w \in Workflows, t \in Tracks : StemAudioCall(w, t)
  \/ \E w \in Workflows : StemAudioCacheGet(w)
  \/ \E w \in Workflows : StemAudioGetPrefs(w)
  \/ \E w \in Workflows : StemAudioQueryPermission(w)
  \/ \E w \in Workflows : StemAudioRequestPermission(w)
  \/ \E w \in Workflows : StemAudioPicker(w)
  \/ \E w \in Workflows : StemAudioNewQueryPermission(w)
  \/ \E w \in Workflows : StemAudioSetPrefs(w)
  \/ \E w \in Workflows : StemAudioUpload(w)
  \/ \E w \in Workflows : StemAudioGetSize(w)
  \/ \E w \in Workflows : StemAudioPoll(w)
  \/ \E w \in Workflows : StemAudioTimer(w)
  \/ \E w \in Workflows : StemAudioFetchStems(w)
  \/ \E w \in Workflows : StemAudioGetDirectoryHandle(w)
  \/ \E w \in Workflows : StemAudioWrite(w)
  \/ \E w \in Workflows : StemAudioStoreGet(w)
  \/ \E w \in Workflows : StemAudioStorePut(w)
  \/ \E t \in Tracks : ServiceFinish(t)

Spec == Init /\ [][Next]_vars

\* one step of the stemAudio call w: a continuation the event loop runs once
\* the awaited promise settles, or the retry timer firing
StemAudioStep(w) ==
  \/ StemAudioCacheGet(w) \/ StemAudioGetPrefs(w)
  \/ StemAudioQueryPermission(w) \/ StemAudioRequestPermission(w)
  \/ StemAudioPicker(w) \/ StemAudioNewQueryPermission(w)
  \/ StemAudioSetPrefs(w) \/ StemAudioUpload(w) \/ StemAudioGetSize(w)
  \/ StemAudioPoll(w) \/ StemAudioTimer(w) \/ StemAudioFetchStems(w)
  \/ StemAudioGetDirectoryHandle(w) \/ StemAudioWrite(w)
  \/ StemAudioStoreGet(w) \/ StemAudioStorePut(w)

\* The liveness runs start with the track in the mix, its file cached and
\* no stems on disk or in the cache: the states in which generation is offered.
InitLive ==
  /\ Init
  /\ audioLoaded = Tracks
  /\ trackName = Tracks
  /\ \A t \in Tracks : CacheGet(t) = [file |-> TRUE, stems |-> {}]
  /\ \A t \in Tracks : stemDir[t] = NoDir

\* Every awaited request settles and every timer fires; the service itself
\* is under no obligation to finish.
FairSpec ==
  /\ InitLive /\ [][Next]_vars
  /\ \A w \in Workflows : WF_vars(StemAudioStep(w))

\* the stem lifecycle at rest
StemsQuiet ==
  /\ requests = {} /\ audioLoaded = {} /\ stemsAnalyzing = {}
  /\ stemState = [t \in Tracks |-> Undefined]
  /\ stemTimer = [t \in Tracks |-> 0]
  /\ trackCache = <<>> /\ trackName = {}
  /\ prefsHandle = 0 /\ handlesMade = 0
  /\ handlePerm = [h \in Handles |-> "prompt"]
  /\ stemDir = [t \in Tracks |-> NoDir]
  /\ service = [t \in Tracks |-> "none"]
  /\ wf = [w \in Workflows |-> IdleWorkflow]
  /\ va = [c \in Calls |-> IdleCall]

\* one call of calcRegions for each combination of arguments
GridInit ==
  /\ StemsQuiet
  /\ PlayQuiet
  /\ RestQuiet
  /\ calc \in [pc : {"call"}, duration : Durations, offset : Offsets,
               adjustedOffset : AdjustedOffsets, bpm : Bpms,
               adjustedBpm : AdjustedBpms, beatResolution : BeatResolutions,
               skipLength : {Unset}, regions : {<<>>}]
  /\ arrays = <<>> /\ held = <<>>

GridNext ==
  \/ CalcRegionsCall
  \/ CalcRegionsAnalyzed
  \/ CalcRegionsTrackState

GridSpec == GridInit /\ [][GridNext]_vars

\* the times seek is called with while tracks play
SeekTimes == {900}
\* the times seek is called with on a paused track, by itself
SeekTimesFine == {Unset, 0, 198, 700, 900, 998, 1002, 1248, 1252, 1450, 1900}
Directions == {"none", "next", "previous"}

\* two tracks in the mix: the second is loaded, the first is not, or is
\* loaded with a bpm override, with or without stems; nothing is playing yet
PlayInit ==
  /\ StemsQuiet
  /\ GridQuiet
  /\ RestQuiet
  /\ mix \in [PlayTracks -> (TrackSetups \ {Loaded}) \cup {NotLoaded, Loaded}]
  /\ mix[1] # Loaded /\ mix[2] = Loaded
  /\ au = [t \in PlayTracks |-> IdleAudio]
  /\ clock = 0 /\ timers = <<>> /\ timersMade = 0
  /\ pl = [p \in PlayCalls |-> IdlePlay]
  /\ lastSeek = NoSeek

PlayNext ==
  \/ \E p \in PlayCalls, t \in {1, NoTrackId} : PlayCall(p, t)
  \/ \E p \in PlayCalls : PlayStart(p)
  \/ \E p \in PlayCalls : PlayGetTrackPrefs(p)
  \/ \E p \in PlayCalls : PlayGetTrack(p)
  \/ \E t \in {1, NoTrackId} : Pause(t)
  \/ \E h \in 1..MaxTimers : Tick(h)
  \/ ClockAdvance

PlaySpec == PlayInit /\ [][PlayNext]_vars

\* one track in the mix, without stems, which is played, paused and sought
ResumeInit ==
  /\ StemsQuiet
  /\ GridQuiet
  /\ RestQuiet
  /\ mix \in [PlayTracks -> TrackSetups \cup {NotLoaded}]
  /\ mix[1] # NotLoaded /\ ~ mix[1].stems /\ mix[2] = NotLoaded
  /\ au = [t \in PlayTracks |-> IdleAudio]
  /\ clock = 0 /\ timers = <<>> /\ timersMade = 0
  /\ pl = [p \in PlayCalls |-> IdlePlay]
  /\ lastSeek = NoSeek

ResumeNext ==
  \/ \E p \in PlayCalls : PlayCall(p, 1)
  \/ \E p \in PlayCalls : PlayStart(p)
  \/ \E p \in PlayCalls : PlayGetTrackPrefs(p)
  \/ \E p \in PlayCalls : PlayGetTrack(p)
  \/ Pause(1)
  \/ \E h \in 1..MaxTimers : Tick(h)
  \/ ClockAdvance
  \/ \E s \in SeekTimes : Seek(1, s, "next")

ResumeSpec == ResumeInit /\ [][ResumeNext]_vars

\* a paused track with the playhead anywhere, and the two seeks from any time
SeekInit ==
  /\ StemsQuiet
  /\ GridQuiet
  /\ RestQuiet
  /\ mix = [t \in PlayTracks |-> Loaded]
  /\ \E pos \in {0, 700, 1203} :
       au = [t \in PlayTracks |->
               [IdleAudio EXCEPT !.playhead = pos, !.time = pos]]
  /\ clock = 0 /\ timers = <<>> /\ timersMade = 0
  /\ pl = [p \in PlayCalls |-> IdlePlay]
  /\ lastSeek = NoSeek

SeekNext ==
  \/ \E s \in SeekTimesFine, d \in Directions : Seek(1, s, d)
  \/ \E s \in SeekTimesFine, d \in Directions :
       \* the previous and next buttons seek from the current position
       /\ (d # "none" => s = Unset)
       /\ SeekEvent(1, s, d)

SeekSpec == SeekInit /\ [][SeekNext]_vars

\* a loaded track whose tempo, offset and beat resolution are adjusted
ControlInit ==
  /\ StemsQuiet
  /\ GridQuiet
  /\ PlayQuiet
  /\ ctl = LoadedControl
  /\ EventsQuiet
  /\ destroyed = {}
  /\ MixQuiet
  /\ FadeQuiet
  /\ NavQuiet
  /\ CacheQuiet

ControlNext ==
  \/ \E b \in AdjustedBpmArgs : BpmCall(b)
  \/ BpmGetTrack
  \/ BpmSetTrackPrefs
  \/ \E o \in AdjustedOffsetArgs : OffsetCall(o)
  \/ OffsetUpdateTrack
  \/ \E r \in BeatResolutionArgs : BeatResolutionCall(r)
  \/ BeatResolutionSetTrackPrefs

ControlSpec == ControlInit /\ [][ControlNext]_vars

\* the waveforms of a track id are loaded and the controls emit events
EventsInit ==
  /\ StemsQuiet
  /\ GridQuiet
  /\ PlayQuiet
  /\ ControlQuiet
  /\ ev = NoEvents
  /\ destroyed = {}
  /\ MixQuiet
  /\ FadeQuiet
  /\ NavQuiet
  /\ CacheQuiet

EventsNext ==
  \/ LoadAudioEvents
  \/ \E event \in ControlEvents : EmitEvent(event)

EventsSpec == EventsInit /\ [][EventsNext]_vars

\* one track in the mix, without stems, which is played, paused and destroyed
DestroyInit ==
  /\ StemsQuiet
  /\ GridQuiet
  /\ RestQuiet
  /\ mix \in [PlayTracks -> TrackSetups \cup {NotLoaded}]
  /\ mix[1] # NotLoaded /\ ~ mix[1].stems /\ mix[2] = NotLoaded
  /\ au = [t \in PlayTracks |-> IdleAudio]
  /\ clock = 0 /\ timers = <<>> /\ timersMade = 0
  /\ pl = [p \in PlayCalls |-> IdlePlay]
  /\ lastSeek = NoSeek

DestroyNext ==
  \/ \E p \in PlayCalls : PlayCall(p, 1)
  \/ \E p \in PlayCalls : PlayStart(p)
  \/ \E p \in PlayCalls : PlayGetTrackPrefs(p)
  \/ \E p \in PlayCalls : PlayGetTrack(p)
  \/ Pause(1)
  \/ \E h \in 1..MaxTimers : Tick(h)
  \/ ClockAdvance
  \/ DestroyTrack(1)

DestroySpec == DestroyInit /\ [][DestroyNext]_vars

\* tracks are added to an empty mix, by calls that may overlap
MixInit ==
  /\ StemsQuiet
  /\ GridQuiet
  /\ PlayQuiet
  /\ RestQuiet

MixNext ==
  \/ \E c \in AddCalls, t \in MixTrackIds, slot \in TrackSlots :
       AddToMixCall(c, t, slot)
  \/ \E c \in AddCalls : AddToMixGetPermission(c)
  \/ \E c \in AddCalls : AddToMixEjectTrack(c)
  \/ \E t \in MixTrackIds : SetStemState(t)

MixSpec == MixInit /\ [][MixNext]_vars

\* the length of every track of the play model
TrackDuration == ControlTrack.duration
\* where a track was paused: at its start, or 10 ms before its end
PausedAt == {0, TrackDuration - 10}

\* one track in the mix, without stems, paused somewhere, is played and paused
ElapsedInit ==
  /\ StemsQuiet
  /\ GridQuiet
  /\ RestQuiet
  /\ mix \in [PlayTracks -> TrackSetups \cup {NotLoaded}]
  /\ mix[1] # NotLoaded /\ ~ mix[1].stems /\ mix[2] = NotLoaded
  /\ \E pos \in PausedAt :
       au = [t \in PlayTracks |->
               IF t = 1 THEN [IdleAudio EXCEPT !.playhead = pos, !.time = pos]
               ELSE IdleAudio]
  /\ clock = 0 /\ timers = <<>> /\ timersMade = 0
  /\ pl = [p \in PlayCalls |-> IdlePlay]
  /\ lastSeek = NoSeek

ElapsedNext ==
  \/ \E p \in PlayCalls : PlayCall(p, 1)
  \/ \E p \in PlayCalls : PlayStart(p)
  \/ \E p \in PlayCalls : PlayGetTrackPrefs(p)
  \/ \E p \in PlayCalls : PlayGetTrack(p)
  \/ Pause(1)
  \/ \E h \in 1..MaxTimers : Tick(h)
  \/ ClockAdvance

ElapsedSpec == ElapsedInit /\ [][ElapsedNext]_vars

\* prefs 'mix'.tracks: no mix stored, both tracks, or an empty first slot
MixPrefsTracks == { <<>>, <<1, 2>>, <<0, 2>> }

\* two loaded tracks, the first with stems; the sliders and the stem controls
FadeInit ==
  /\ StemsQuiet
  /\ GridQuiet
  /\ PlayQuiet
  /\ ControlQuiet /\ EventsQuiet /\ destroyed = {} /\ MixQuiet /\ NavQuiet
  /\ CacheQuiet
  /\ gn = LoadedGains
  /\ cf \in [tracks : MixPrefsTracks, calls : {[c \in FadeCalls |-> IdleFade]}]

FadeNext ==
  \/ \E c \in FadeCalls, v \in SliderVals, st \in FadeStems \cup {NoStem} :
       CrossfadeCall(c, v, st)
  \/ \E c \in FadeCalls : CrossfadeGetPrefs(c)
  \/ \E t \in FadeTracks, st \in FadeStems, v \in StemVolumes :
       StemVolume(t, st, v)
  \/ \E t \in FadeTracks, st \in FadeStems, m \in BOOLEAN :
       StemMuteToggle(t, st, m)
  \/ \E t \in FadeTracks, st \in FadeStems, solo \in BOOLEAN :
       StemSoloToggle(t, st, solo)

FadeSpec == FadeInit /\ [][FadeNext]_vars

\* the arguments of the repeated calls
RepeatArgs ==
  [duration : {2000}, offset : {Unset, 200}, adjustedOffset : {Unset, 1000},
   bpm : {120, 150}, adjustedBpm : {Unset, 150}, beatResolution : {Unset, 2}]

\* calcRegions is called again and again, with the same or other arguments
RepeatInit ==
  /\ StemsQuiet
  /\ PlayQuiet
  /\ RestQuiet
  /\ \E args \in RepeatArgs :
       calc = [pc |-> "call", duration |-> args.duration,
               offset |-> args.offset, adjustedOffset |-> args.adjustedOffset,
               bpm |-> args.bpm, adjustedBpm |-> args.adjustedBpm,
               beatResolution |-> args.beatResolution,
               skipLength |-> Unset, regions |-> <<>>]
  /\ arrays = <<>> /\ held = <<>>

RepeatNext ==
  \/ CalcRegionsCall
  \/ CalcRegionsAnalyzed
  \/ CalcRegionsTrackState
  \/ \E args \in RepeatArgs : CalcRegionsAgain(args)

RepeatSpec == RepeatInit /\ [][RepeatNext]_vars

\* the grids of the navigation: tempo, offset and beat resolution
NavBpms == {80, 100, 120, 150}
NavOffsets == {0, 200, 300, 500, 700, 1300}

\* a paused track with any of the grids, the playhead on any of its markers
NavInit ==
  /\ StemsQuiet
  /\ GridQuiet
  /\ PlayQuiet
  /\ ControlQuiet /\ EventsQuiet /\ destroyed = {} /\ MixQuiet /\ FadeQuiet
  /\ CacheQuiet
  /\ \E b \in NavBpms, o \in NavOffsets, r \in BeatResolutions :
       LET grid == GridOf(b, o, r)
       IN \E i \in 1..Len(grid.markers) :
            nav = [grid |-> grid, playhead |-> grid.markers[i]]

NavNext ==
  \/ \E d \in {"next", "previous"} : NavSeek(d)
  \/ \E d \in {"next", "previous"} : NavSeekEvent(d)

NavSpec == NavInit /\ [][NavNext]_vars

\* a cache one short of the limit or at the limit; calls of storeTrackCache
\* for cached and for new ids, overlapping at their awaits
CacheInit ==
  /\ requests = {} /\ audioLoaded = {} /\ stemsAnalyzing = {}
  /\ stemState = [t \in Tracks |-> Undefined]
  /\ stemTimer = [t \in Tracks |-> 0]
  /\ trackCache \in {CacheOf(CACHE_LIMIT - 1), CacheOf(CACHE_LIMIT)}
  /\ trackName = {}
  /\ prefsHandle = 0 /\ handlesMade = 0
  /\ handlePerm = [h \in Handles |-> "prompt"]
  /\ stemDir = [t \in Tracks |-> NoDir]
  /\ service = [t \in Tracks |-> "none"]
  /\ wf = [w \in Workflows |-> IdleWorkflow]
  /\ va = [c \in Calls |-> IdleCall]
  /\ GridQuiet
  /\ PlayQuiet
  /\ RestQuiet

CacheNext ==
  \/ \E c \in StoreCalls, id \in StoredIds, file \in BOOLEAN,
        stems \in StoredStems : StoreTrackCacheCall(c, id, file, stems)
  \/ \E c \in StoreCalls : StoreTrackCacheGet(c)
  \/ \E c \in StoreCalls : StoreTrackCacheCount(c)
  \/ \E c \in StoreCalls : StoreTrackCacheFirst(c)
  \/ \E c \in StoreCalls : StoreTrackCachePut(c)

CacheSpec == CacheInit /\ [][CacheNext]_vars

TypeOK ==
  /\ stemState \in [Tracks -> StemState \cup {Undefined}]
  /\ \A w \in Workflows : wf[w].i \in 1..Len(STEMS)

\* ------------------------------------------------------------------ claims
Active(w) == wf[w].pc \in {"upload", "getSize", "poll", "timer", "fetchStems",
                           "getDirectoryHandle", "write", "storeGet",
                           "storePut"}
ActiveOn(t) == {w \in Workflows : Active(w) /\ wf[w].track = t}
Decided(c) == va[c].pc = "returned"

\* C1: at most one stem-generation workflow is active per track, and a call
\* of validateTrackStemAccess made in processingStems returns processingStems
C1_OneWorkflow ==
  /\ \A t \in Tracks : Cardinality(ActiveOn(t)) <= 1
  /\ \A c \in Calls : Decided(c) /\ va[c].stemState = "processingStems"
                         => va[c].result = "processingStems"

\* C2: a call of validateTrackStemAccess made in uploadingFile or
\* downloadingStems returns that phase (and so does not overwrite it)
C2_NoOpInGeneration ==
  \A c \in Calls :
    Decided(c) /\ va[c].stemState \in {"uploadingFile", "downloadingStems"}
      => va[c].result = va[c].stemState

\* C3: a step in which an upload, poll, download or persist of stemAudio
\* fails leaves the stored phase at error
C3_FailureSetsError ==
  [][\A w \in Workflows :
       Active(w) /\ wf'[w].pc \in {"rejected", "pending"}
         => stemState'[wf[w].track] = "error"]_vars

\* C4: once the poll has answered 500 or failed, the stemAudio call
\* eventually settles
C4_PollFailureSettles ==
  \A w \in Workflows :
    (wf[w].outcome \in {"poll500", "pollError"}) ~> (wf[w].pc \in Settled)

Rank(p) == CASE p = "selectStemDir" -> 1 [] p = "grantStemDirAccess" -> 2
             [] p = "getStems" -> 3 [] p = "uploadingFile" -> 4
             [] p = "processingStems" -> 5 [] p = "downloadingStems" -> 6
             [] p = "ready" -> 7 [] OTHER -> 0

\* C5: the stored phase moves to an earlier phase of the order only from
\* error
C5_ForwardOnly ==
  [][\A t \in Tracks :
       (Rank(stemState[t]) > 0 /\ Rank(stemState'[t]) > 0
        /\ Rank(stemState'[t]) < Rank(stemState[t])) => FALSE]_vars

PhaseOrder == <<"uploadingFile", "processingStems", "downloadingStems",
                "ready">>
IsPrefix(a, b) == Len(a) <= Len(b) /\ \A k \in 1..Len(a) : a[k] = b[k]

\* C6: a stemAudio call writes uploadingFile, processingStems,
\* downloadingStems, ready in that order and nothing else but error, and
\* writes ready only once it has persisted and cached all four stems
C6_RunOrder ==
  [][\A w \in Workflows :
       LET t == wf[w].track IN
       /\ wf'[w].wrote # wf[w].wrote /\ wf'[w].wrote # <<>>
            => /\ IsPrefix(wf'[w].wrote, PhaseOrder)
               /\ Len(wf'[w].wrote) = Len(wf[w].wrote) + 1
               /\ stemState'[t] = wf'[w].wrote[Len(wf'[w].wrote)]
       /\ wf'[w] # wf[w] /\ wf[w].pc # "idle" /\ stemState'[t] # stemState[t]
            => \/ wf'[w].wrote = Append(wf[w].wrote, stemState'[t])
               \/ stemState'[t] = "error"
       /\ wf'[w] # wf[w] /\ wf[w].pc # "idle" /\ stemState'[t] = "ready"
            /\ stemState[t] # "ready"
            => /\ wf'[w].pc = "resolved"
               /\ wf'[w].wrote = PhaseOrder
               /\ wf'[w].persisted = StemNames
               /\ wf'[w].cached = StemNames
               /\ OwnFiles(StemNames) \subseteq stemDir'[t].files
       /\ wf[w].pc # "resolved" /\ wf'[w].pc = "resolved"
            => /\ wf'[w].wrote = PhaseOrder
               /\ wf'[w].persisted = StemNames
               /\ wf'[w].cached = StemNames
               /\ stemState'[t] = "ready"]_vars

C6_Witness ==
  \E w \in Workflows : /\ wf[w].pc = "resolved"
                       /\ stemState[wf[w].track] = "ready"
                       /\ wf[w].cached = StemNames

Failed(w) == wf[w].pc \in {"rejected", "pending"}

\* C7: a 202 answer leaves the phase alone and arms the timer, the timer
\* always polls again, and once the service is done a polling call, unless a
\* request of it fails, reaches ready
C7_PollUntilReady ==
  /\ [][\A w \in Workflows :
          /\ wf[w].pc = "poll" /\ wf'[w].pc = "timer"
               => /\ stemState' = stemState
                  /\ wf[w].wrote[Len(wf[w].wrote)] = "processingStems"
          /\ wf[w].pc = "timer" /\ wf'[w] # wf[w] => wf'[w].pc = "poll"]_vars
  /\ \A w \in Workflows :
       (wf[w].pc \in {"poll", "timer"} /\ service[wf[w].track] = "done")
         ~> (Failed(w) \/ (wf[w].pc = "resolved"
                           /\ stemState[wf[w].track] = "ready"))

C7_Witness ==
  \E w \in Workflows : /\ wf[w].pc = "poll" /\ wf[w].retried
                       /\ service[wf[w].track] = "done"
                       /\ stemState[wf[w].track] = "processingStems"

\* C8: the cached stems of a track are none or all four, and a call of
\* validateTrackStemAccess that answers ready has read or stored all four
C8_StemsAllOrNone ==
  /\ \A t \in Tracks : CacheGet(t).stems \in {{}, StemNames}
  /\ \A c \in Calls : Decided(c) /\ va[c].result = "ready"
                        => va[c].entry.stems = StemNames

GenerationPhases == {"uploadingFile", "processingStems", "downloadingStems"}

\* C9: a call made outside the generation phases answers ready when it finds
\* cached stems, else selectStemDir without a handle, else grantStemDirAccess
\* without permission, and its answer is the stored phase when it returns
C9_AccessPriority ==
  [][\A c \in Calls :
       (va[c].pc # "returned" /\ va'[c].pc = "returned"
        /\ va[c].stemState \notin GenerationPhases)
         => LET seen == va'[c].seen
                r == va'[c].result
                t == va[c].track IN
            /\ seen[1] = "stems" => r = "ready"
            /\ seen = <<"noStems", "noHandle">> => r = "selectStemDir"
            /\ seen = <<"noStems", "handle", "notGranted">>
                 => r = "grantStemDirAccess"
            /\ (r \in {"ready", "selectStemDir", "grantStemDirAccess"}
                /\ t \in audioLoaded) => stemState'[t] = r]_vars

\* the call found no cached stems, a configured handle and the permission
PastPermission(seen) ==
  Len(seen) >= 3 /\ SubSeq(seen, 1, 3) = <<"noStems", "handle", "granted">>

SawDir(seen) == \E k \in 1..Len(seen) : seen[k] = "dir"

NoHandleOutcomes == {"aborted", "denied"}

\* C11: a stemAudio call that gets no directory handle (permission denied or
\* picker cancelled) rejects with the permission error, has written no phase
\* and sent no upload, and never takes another step
C11_NoHandleFails ==
  [][\A w \in Workflows :
       /\ (wf[w].pc # "rejected" /\ wf'[w].pc = "rejected"
           /\ wf'[w].outcome \in NoHandleOutcomes)
            => /\ wf'[w].outcome = "denied"
               /\ wf[w].wrote = <<>>
               /\ stemState' = stemState
               /\ service' = service
       /\ (wf[w].pc = "rejected" /\ wf[w].outcome \in NoHandleOutcomes)
            => wf'[w] = wf[w]]_vars

\* the effective offset stepped back by beatInterval while the result is > 0
GridZero(off, bi) ==
  IF off - bi > 0
  THEN CHOOSE z \in {off - j * bi : j \in 0..(off \div bi)} :
         z > 0 /\ z - bi <= 0
  ELSE off

\* C20: the grid holds, in increasing order, exactly the times
\* zeroTime + k * skipLength below duration, with beatInterval = 60 / bpm and
\* skipLength = beatInterval / beatResolution; bpm 120, offset 0.2 s, duration
\* 2 s and resolution 1 give 0.2, 0.7, 1.2, 1.7
C20_BeatGrid ==
  calc.pc = "returned" =>
    LET bpm == Or3(calc.adjustedBpm, calc.bpm, 1)
        bi == MsPerMinute \div bpm
        q == IF calc.beatResolution = Unset THEN 1 ELSE calc.beatResolution
        skip == (bi * 4) \div q
        zero == GridZero(Or3(calc.adjustedOffset, calc.offset, 0), bi)
        starts == Starts(calc.regions)
    IN /\ calc.skipLength = skip
       /\ \A k \in 1..Len(starts) : starts[k] = zero + (k - 1) * skip
       /\ \A k \in 1..Len(starts) : starts[k] < calc.duration
       /\ zero + Len(starts) * skip >= calc.duration
       /\ (calc.bpm = 120 /\ calc.adjustedBpm = Unset /\ calc.offset = 200
           /\ calc.adjustedOffset = Unset /\ calc.duration = 2000
           /\ calc.beatResolution = 4)
            => starts = <<200, 700, 1200, 1700>>

C20_Witness ==
  /\ calc.pc = "returned" /\ calc.bpm = 120 /\ calc.adjustedBpm = Unset
  /\ calc.adjustedOffset = 1000 /\ calc.beatResolution = 4
  /\ calc.duration = 2000
  /\ Starts(calc.regions) = <<500, 1000, 1500>>

\* the live metering timers of a track
Samplers(t) == {h \in DOMAIN timers : timers[h].track = t}

\* C12: in every reachable state each track has at most one live metering
\* timer, also when two play calls for the same track overlap at their awaits
C12_OneSampler ==
  \A t \in PlayTracks : Cardinality(Samplers(t)) <= 1

\* C13: when pause(trackId) or pause() has run, every affected track has its
\* track meter and its stem meters at 0, is not playing and has no live
\* metering timer, whatever preceded the call
C13_PauseSettles ==
  [][\A id \in PlayTracks \cup {NoTrackId} :
       Pause(id) =>
         \A t \in (IF id = NoTrackId THEN PlayTracks ELSE {id}) :
           /\ au'[t].volumeMeter = 0
           /\ au'[t].stemMeters = {}
           /\ ~ au'[t].playing
           /\ \A h \in DOMAIN timers' : timers'[h].track # t]_vars

\* the call p is past its reading of the clock
Running(p) == pl[p].pc \in {"getTrackPrefs", "getTrack"}

\* the step starts the players of the track at the head of the call p
StartsTrack(p) ==
  /\ Running(p)
  /\ pl'[p].pc = "idle" \/ pl'[p].todo # pl[p].todo

\* C14: a play call reads the clock once: its reference stays what it read
\* for as long as the call runs, and the players of every track the call
\* starts, stems included, are started with that reference, whatever the
\* clock says by then
C14_OneClockReference ==
  [][\A p \in PlayCalls :
       /\ (Running(p) /\ pl'[p].pc # "idle")
            => pl'[p].contextStartTime = pl[p].contextStartTime
       /\ StartsTrack(p)
            => au'[Head(pl[p].todo)].startRef = pl[p].contextStartTime]_vars

\* a play() of both tracks has started the first with its reference, the
\* clock has moved on since, and the second is still to be started
C14_Witness ==
  \E p \in PlayCalls :
    /\ Running(p) /\ pl[p].trackId = NoTrackId /\ pl[p].todo = <<2>>
    /\ au[1].playing /\ au[1].startRef = pl[p].contextStartTime
    /\ clock > pl[p].contextStartTime

\* C15: when play starts a track that has a manual bpm override (and a bpm
\* to scale from), the playback rate of every player of the track is
\* adjustedBpm / bpm: of the track-level player when the track has no
\* stems, of each stem player when it has
C15_OverrideScalesRate ==
  [][\A p \in PlayCalls :
       LET t == Head(pl[p].todo)
           scaled == [num |-> mix[t].adjustedBpm, den |-> mix[t].bpm]
       IN (StartsTrack(p) /\ ~ Falsy(mix[t].adjustedBpm) /\ ~ Falsy(mix[t].bpm))
            => IF mix[t].stems THEN au'[t].stemRate = scaled
               ELSE au'[t].rate = scaled]_vars

\* the tracks play(id) is to start: the loaded track id, or with no id every
\* loaded track
ToStart(id) ==
  {t \in PlayTracks : /\ mix[t].waveform /\ mix[t].player
                      /\ (id = NoTrackId \/ t = id)}

C17_SeekKeepsPlaying ==
  [][/\ \A t \in PlayTracks, s \in SeekTimes \cup SeekTimesFine,
          d \in Directions :
          (/\ lastSeek'.track = t /\ lastSeek'.direction = d
           /\ (Falsy(s) \/ lastSeek'.startTime = s) /\ Seek(t, s, d)) =>
            IF au[t].playing
            THEN /\ ~ au'[t].playing
                 /\ au[t].volumeMeterInterval \notin DOMAIN timers'
                 /\ au'[t].volumeMeter = 0
                 /\ lastSeek'.moved => /\ au'[t].playhead = lastSeek'.time
                                       /\ au'[t].time = lastSeek'.time
                 /\ \E p \in PlayCalls :
                      /\ pl[p].pc = "idle"
                      /\ pl'[p].pc = "start" /\ pl'[p].trackId = t
                      /\ pl'[p].bySeek
                      /\ \A q \in PlayCalls \ {p} : pl'[q] = pl[q]
            ELSE /\ ~ au'[t].playing
                 /\ pl' = pl
                 /\ timers' = timers
     /\ \A p \in PlayCalls :
          pl[p].bySeek =>
            /\ (pl[p].pc = "start" /\ pl'[p] # pl[p])
                 => /\ Running(p)'
                    /\ pl'[p].time[pl[p].trackId] = au[pl[p].trackId].time
            /\ StartsTrack(p)
                 => /\ Head(pl[p].todo) = pl[p].trackId
                    /\ au'[pl[p].trackId].playing
                    /\ pl'[p].pc = "idle"]_vars

\* a seek has paused the playing track 1 and moved it, and the play call it
\* left behind has taken the new time and is about to start the track
C17_Witness ==
  \E p \in PlayCalls :
    /\ pl[p].bySeek /\ Running(p)
    /\ lastSeek.playing /\ lastSeek.moved
    /\ ~ au[1].playing
    /\ pl[p].time[1] = lastSeek.time

\* C18: a seek from the start time t in the direction d resolves the marker
\* at index round(t / skipLength) + d, the quotient rounded to the nearest
\* integer, d being 1 for next, -1 for previous and 0 for no direction
C18_RoundedIndex ==
  lastSeek.by # "none" =>
    LET index == RoundDiv(lastSeek.startTime, TrackSkipLength)
                 + (CASE lastSeek.direction = "next" -> 1
                      [] lastSeek.direction = "previous" -> -1
                      [] OTHER -> 0)
    IN /\ lastSeek.index = index
       /\ lastSeek.time = MarkerTime(index)

Distance(a, b) == IF a > b THEN a - b ELSE b - a

\* C19: a seek whose resolved time is less than 5 ms from the current
\* position moves neither the playhead nor the stored elapsed time, and a
\* seek whose start time is less than 5 ms from the start time of the seek
\* before it, on the same track and in the same direction, does not move
\* the playhead again
C19_NoMoveWithinFiveMs ==
  [][\A t \in PlayTracks, s \in SeekTimes \cup SeekTimesFine,
        d \in Directions :
        (/\ lastSeek'.track = t /\ lastSeek'.direction = d
           /\ (Falsy(s) \/ lastSeek'.startTime = s) /\ Seek(t, s, d)) =>
          /\ (lastSeek'.time # Unset
               /\ Distance(lastSeek'.time, au[t].playhead) < FiveMs)
                => /\ au'[t].playhead = au[t].playhead
                   /\ au'[t].time = au[t].time
          /\ (lastSeek.by = "seek" /\ lastSeek.track = t
               /\ lastSeek.direction = d
               /\ Distance(lastSeek'.startTime, lastSeek.startTime) < FiveMs)
                => au'[t].playhead = au[t].playhead]_vars

\* C21: a call of calcRegions that ends with the duration absent, or with
\* the bpm absent after the analysis, has thrown and has returned no markers
C21_MissingValuesFail ==
  (calc.pc \in {"returned", "thrown"}
   /\ (Falsy(calc.duration) \/ calc.bpm = Unset))
    => calc.pc = "thrown" /\ calc.regions = <<>>

\* a value that is set wins over the one it overrides
Effective(adjusted, stored) == IF adjusted # Unset THEN adjusted ELSE stored

\* C22: the returned grid is the grid of adjustedBpm when that is set and of
\* bpm otherwise, and of adjustedOffset when that is set, 0 included, and of
\* offset otherwise (no offset at all counting as 0)
C22_EffectiveValues ==
  LET bpm == Effective(calc.adjustedBpm, calc.bpm)
      offset == Effective(calc.adjustedOffset, calc.offset)
      beatInterval == MsPerMinute \div bpm
      skipLength == SkipLength(beatInterval, calc.beatResolution)
      zero == ZeroTime(IF offset = Unset THEN 0 ELSE offset, beatInterval)
  IN (calc.pc = "returned" /\ bpm > 0)
       => /\ calc.skipLength = skipLength
          /\ calc.regions = RegionsFrom(zero, calc.duration, skipLength)

\* C23: when a bpm, offset or beatResolution call settles, the markers are
\* the grid of the bpm, offset and beat resolution that are then in effect
C23_MarkersCurrent ==
  [][(ctl.pc # "idle" /\ ctl'.pc = "idle")
       => ctl'.markers = CalcMarkers(ctl')]_vars

\* the places in emitted of what listener k was called with, in the order of
\* the calls
RECURSIVE Received(_, _)
Received(trace, k) ==
  IF trace = <<>> THEN <<>>
  ELSE LET rest == Received(Tail(trace), k)
       IN IF Head(trace).listener = k /\ Head(trace).kind = "begin"
          THEN <<Head(trace).n>> \o rest ELSE rest

\* C24: a listener receives every event emitted for its track id after it was
\* registered, once each and in the order of emission, and a delivery to it
\* begins only when the one before has ended
C24_OrderedDelivery ==
  \A k \in 1..Len(ev.after) :
    /\ Received(ev.trace, k)
         = [j \in 1..(Len(ev.emitted) - ev.after[k]) |-> ev.after[k] + j]
    /\ \A i \in 1..Len(ev.trace) :
         (ev.trace[i].listener = k /\ ev.trace[i].kind = "begin")
           => /\ i < Len(ev.trace)
              /\ ev.trace[i + 1]
                   = [listener |-> k, n |-> ev.trace[i].n, kind |-> "end"]

\* C25: an event emitted after a destroy event of the track id is delivered
\* to no listener that was registered before that destroy event
C25_DestroyedListenersSilent ==
  \A d \in 1..Len(ev.emitted), i \in 1..Len(ev.trace) :
    (ev.emitted[d] = EvDestroy /\ ev.trace[i].n > d)
      => ev.after[ev.trace[i].listener] >= d

\* C26: a track that was destroyed has no live metering timer, and no
\* callback of a metering timer runs for it
C26_DestroyReleasesTimers ==
  [][\A t \in destroyed' :
       /\ Samplers(t)' = {}
       /\ \A h \in Samplers(t) : ~ Tick(h)]_vars

\* C27: whatever addToMix calls were made, the mix has at most two slots and no
\* track id is in two of them
C27_TwoSlotsNoDuplicate ==
  /\ Cardinality(DOMAIN mixState) <= 2
  /\ \A i, j \in DOMAIN mixState :
       (i # j /\ mixState[i] # 0) => mixState[i] # mixState[j]

\* C28: the elapsed time stored for a track is never below 0 and never above
\* the length of the track
C28_ElapsedWithinTrack ==
  \A t \in PlayTracks : au[t].time >= 0 /\ au[t].time <= TrackDuration

\* C29: the meter of a track holds a value from 0 to 1 whenever its metering
\* timer has written it, for tracks with stems and for tracks without
C29_MeterInRange ==
  \A t \in PlayTracks : au[t].volumeMeter >= 0 /\ au[t].volumeMeter <= 1

\* C30: when a seek on a playing track settles, the track is playing again
\* and its metering timer is running
C30_ResumedWhenSeekSettles ==
  [][\A s \in SeekTimes :
       (au[1].playing /\ lastSeek'.track = 1 /\ Seek(1, s, "next"))
         => au'[1].playing /\ Samplers(1)' # {}]_vars

\* a crossfade call that settles in this step
CrossfadeSettles(c) ==
  cf.calls[c].pc = "getPrefs" /\ cf'.calls[c].pc = "idle"

\* the gains of the claim, in thousandths: gainA = min(1, 1 + cos(pi v/100)),
\* gainB = min(1, 1 + cos(pi (1 - v/100)))
ClaimedGains(v) ==
  CASE v = 0 -> <<1000, 0>>
    [] v = 50 -> <<1000, 1000>>
    [] v = 100 -> <<0, 1000>>
    [] OTHER -> << Min(1000, 1000 + CosPi(v)), Min(1000, 1000 + CosPi(100 - v)) >>

\* C31: a crossfade over both slots with no stem filter leaves every stem of
\* the track in slot 0 at gainA and the track in slot 1 at gainB, with
\* (gainA, gainB) = (1, 0) for v = 0, (1, 1) for v = 50 and (0, 1) for v = 100
C31_CrossfadeGains ==
  [][\A c \in FadeCalls :
       (CrossfadeSettles(c) /\ cf.tracks = <<1, 2>>
        /\ cf.calls[c].stemType = NoStem)
         => /\ \A st \in FadeStems :
                 gn'[1].stems[st].gain = ClaimedGains(cf.calls[c].sliderVal)[1]
            /\ gn'[2].gain = ClaimedGains(cf.calls[c].sliderVal)[2]]_vars

C31_Witness ==
  /\ cf.tracks = <<1, 2>>
  /\ cf.calls[1] = [pc |-> "idle", sliderVal |-> 100, stemType |-> NoStem]
  /\ \A st \in FadeStems :
       gn[1].stems[st] = [LoadedStem EXCEPT !.gain = 0]
  /\ gn[2].gain = 1000

\* C32: a crossfade that settles has written gainA to the track in slot 0 and
\* gainB to the track in slot 1 and nothing else: the gain of a track without
\* stems, the gain of every stem when no filter is given, the gain of the
\* named stem alone when one is given; empty slots and tracks in no slot are
\* left as they were, and so are stored volumes and mute flags
C32_CrossfadeApplies ==
  [][\A c \in FadeCalls :
       CrossfadeSettles(c) =>
         \A t \in FadeTracks :
           LET slots == {i \in 1..Len(cf.tracks) : cf.tracks[i] = t}
               filter == cf.calls[c].stemType
           IN IF slots = {} THEN gn'[t] = gn[t]
              ELSE LET volume == Volumes(cf.calls[c].sliderVal)[CHOOSE i \in slots : TRUE]
                   IN IF gn[t].stems = NoStems
                      THEN gn'[t] = [gn[t] EXCEPT !.gain = volume]
                      ELSE /\ gn'[t].gain = gn[t].gain
                           /\ \A st \in FadeStems :
                                gn'[t].stems[st] =
                                  IF filter = NoStem \/ filter = st
                                  THEN [gn[t].stems[st] EXCEPT !.gain = volume]
                                  ELSE gn[t].stems[st]]_vars

C32_Witness ==
  /\ cf.tracks = <<1, 2>>
  /\ cf.calls[1] = [pc |-> "idle", sliderVal |-> 100, stemType |-> "drums"]
  /\ gn[1].stems["drums"] = [LoadedStem EXCEPT !.gain = 0]
  /\ gn[1].stems["bass"] = LoadedStem
  /\ gn[2].gain = 1000

\* C34: every stem whose mute flag is set has gain 0
C34_MutedIsSilent ==
  \A t \in FadeTracks :
    gn[t].stems # NoStems =>
      \A st \in FadeStems : gn[t].stems[st].mute => gn[t].stems[st].gain = 0

\* C36: from any state, muting a stem and then unmuting it leaves its gain at
\* its stored volume, whatever volume is stored, and the stored volume as it
\* was
C36_MuteRoundTrip ==
  \A st \in FadeStems :
    LET before == gn[1].stems[st]
        after == StemMuteToggled(StemMuteToggled(gn, 1, st, TRUE),
                                 1, st, FALSE)[1].stems[st]
    IN before.volume # Unset
         => after.gain = before.volume /\ after.volume = before.volume

\* C37: from any state, a solo of a stem followed by the end of the solo
\* leaves the mute flag and the gain of every stem as they were before
C37_SoloRoundTrip ==
  \A solo \in FadeStems :
    LET after == StemSoloToggled(StemSoloToggled(gn, 1, solo, TRUE),
                                 1, solo, FALSE)
    IN \A st \in FadeStems :
         /\ after[1].stems[st].mute = gn[1].stems[st].mute
         /\ after[1].stems[st].gain = gn[1].stems[st].gain

OnMarker == IF \E i \in 1..Len(nav.grid.markers) :
                 nav.grid.markers[i] = nav.playhead
            THEN CHOOSE i \in 1..Len(nav.grid.markers) :
                   nav.grid.markers[i] = nav.playhead
            ELSE 0

\* where a step from marker i in a direction has to end
Neighbour(direction) ==
  LET j == OnMarker + Step(direction)
  IN IF j \in 1..Len(nav.grid.markers) THEN nav.grid.markers[j]
     ELSE nav.playhead

\* C35: with the playhead on marker i, seek and seekEvent move it to marker
\* i+1 for 'next' and to marker i-1 for 'previous', and leave it where it is
\* when there is no such marker, whatever the grid
C35_StepsToNeighbour ==
  [][\A d \in {"next", "previous"} :
       (OnMarker # 0 /\ (NavSeek(d) \/ NavSeekEvent(d)))
         => nav'.playhead = Neighbour(d)]_vars

\* C38: once every storeTrackCache call has completed, the track cache holds
\* at most CACHE_LIMIT entries.
C38_CacheWithinLimit ==
  (\A c \in StoreCalls : sc[c].pc = "idle")
     => Cardinality(DOMAIN trackCache) <= CACHE_LIMIT

\* what an entry keeps of an earlier one under a call with these arguments: the
\* file when the call passes none, and every stem the call does not name
Keeps(new, old, call) ==
  /\ (old.file /\ ~ call.file) => new.file
  /\ (old.stems \ call.stems) \subseteq new.stems

\* C39: the put of a storeTrackCache call for an id discards nothing that is
\* cached for that id, neither of the entry the call has read nor of the entry
\* the cache holds when the put is made: the file stays when the call passes no
\* file, and so does every cached stem the call does not name.
C39_KeepsCachedData ==
  [][\A c \in StoreCalls :
       (sc[c].pc = "put" /\ sc'[c].pc = "idle")
          => /\ Keeps(trackCache'[sc[c].id], sc[c].cache, sc[c])
             /\ Keeps(trackCache'[sc[c].id], CacheGet(sc[c].id), sc[c])]_vars

\* the slot the claim names for a call: the given one, else the first when it
\* is empty, else the second
ChosenSlot(trackSlot, tracks) ==
  IF trackSlot # Unset THEN trackSlot
  ELSE IF SlotOf(tracks, 0) = 0 THEN 0 ELSE 1

\* the track is in the slot, the other slot is as it was, the state of the
\* track is empty, and the track that was in the slot has been ejected
Placed(index, trackId) ==
  /\ SlotOf(mixState', index) = trackId
  /\ SlotOf(mixState', 1 - index) = SlotOf(mixState, 1 - index)
  /\ trackState'[trackId] = "empty"
  /\ LET was == SlotOf(mixState, index)
     IN was \notin {0, trackId} => trackState'[was] = "none"

\* C40: addToMix places the track in the given slot, or without one in slot 0
\* when that is empty and in slot 1 otherwise; a track found in the chosen slot
\* is ejected before the new one is placed, the other slot stays as it was and
\* the new track gets empty audio and track state; without file permission the
\* mix is left as it was.
C40_AddToMixPlaces ==
  [][\A c \in AddCalls :
       /\ (am[c].pc = "getPermission" /\ am'[c].pc # "getPermission")
            => LET index == ChosenSlot(am[c].trackSlot, mixState)
               IN IF ~ am'[c].file
                  THEN mixState' = mixState /\ trackState' = trackState
                  ELSE IF SlotOf(mixState, index) = 0
                       THEN Placed(index, am[c].trackId)
                       ELSE /\ am'[c].pc = "ejectTrack"
                            /\ am'[c].index = index
                            /\ mixState' = mixState
       /\ (am[c].pc = "ejectTrack" /\ am'[c].pc = "idle")
            => Placed(am[c].index, am[c].trackId)]_vars

====
